---- MODULE Spec2Model ----
(***************************************************************************)
(* pydantic-cli: the schema-to-parser compiler (src/pydantic_cli/          *)
(* __init__.py), the argparse layer it drives (src/pydantic_cli/           *)
(* argparse.py), the CLI configuration (core.py), the JSON/path helpers    *)
(* (utils.py) and the orchestration function _runner, as one state         *)
(* machine: one behaviour is one invocation of a runner on one argv.       *)
(***************************************************************************)
EXTENDS Integers, Sequences, FiniteSets, TLC

(***************************************************************************)
(* Bounds of the explored inputs.                                          *)
(***************************************************************************)
MaxArgs == 4
MaxInt == 12

(***************************************************************************)
(* Python values.  Every value carries its Python type so that "10" (a     *)
(* command-line token) and 10 (a JSON number, or a validated int field)    *)
(* are different values, and True and 1 are different objects that         *)
(* compare equal.                                                          *)
(***************************************************************************)
V(t, i, s, l) == [t |-> t, i |-> i, s |-> s, l |-> l]
VStr(s) == V("str", 0, s, <<>>)
VInt(i) == V("int", i, "", <<>>)
VBool(b) == V("bool", IF b THEN 1 ELSE 0, "", <<>>)
VNone == V("None", 0, "", <<>>)
VList(l) == V("list", 0, "", l)
VRef(s) == V("ref", 0, s, <<>>)
NOT_PROVIDED == V("Ellipsis", 0, "", <<>>)
SUPPRESS == VStr("==SUPPRESS==")

\* Python's ==: bool is a subclass of int, so True == 1 and False == 0.
PyEq(a, b) ==
    IF a.t \in {"int", "bool"} /\ b.t \in {"int", "bool"} THEN a.i = b.i ELSE a = b

PyIn(a, S) == \E b \in S : PyEq(a, b)

StartsWith(s, p) == Len(s) >= Len(p) /\ SubSeq(s, 1, Len(p)) = p

\* int(s) for a decimal string; the model's integers are 0..MaxInt.
IsIntStr(s) == \E i \in 0..MaxInt : ToString(i) = s
ParseInt(s) == CHOOSE i \in 0..MaxInt : ToString(i) = s

\* str.replace("-", "_")
RECURSIVE ReplaceDash(_)
ReplaceDash(s) ==
    IF Len(s) = 0 THEN ""
    ELSE (IF SubSeq(s, 1, 1) = "-" THEN "_" ELSE SubSeq(s, 1, 1))
         \o ReplaceDash(SubSeq(s, 2, Len(s)))

SeqToSet(q) == {q[k] : k \in 1..Len(q)}

\* A mapping (dict, Namespace) is a function from its keys.
EmptyDict == [k \in {} |-> VNone]
DictSet(d, k, v) == [x \in (DOMAIN d) \cup {k} |-> IF x = k THEN v ELSE d[x]]
DictGet(d, k, dflt) == IF k \in DOMAIN d THEN d[k] ELSE dflt
DictUpdate(d, e) == [x \in (DOMAIN d) \cup (DOMAIN e) |-> IF x \in DOMAIN e THEN e[x] ELSE d[x]]

(***************************************************************************)
(* core.py: DefaultConfig and CliConfig.                                   *)
(***************************************************************************)
CLI_JSON_KEY == "json-config"
CLI_JSON_CONFIG_ENV_VAR == "PCLI_JSON_CONFIG"
CLI_BOOL_PREFIX == <<"--enable-", "--disable-">>
CLI_SHELL_COMPLETION_FLAG == "--emit-completion"

\* The class-level Config of a model: the DefaultConfig attributes with the
\* model's own overrides.  NoPath is CLI_JSON_CONFIG_PATH = None.
NoPath == VNone
DefaultConfig ==
    [CLI_JSON_KEY |-> CLI_JSON_KEY,
     CLI_JSON_ENABLE |-> FALSE,
     CLI_JSON_CONFIG_ENV_VAR |-> CLI_JSON_CONFIG_ENV_VAR,
     CLI_JSON_CONFIG_PATH |-> NoPath,
     CLI_JSON_VALIDATE_PATH |-> TRUE,
     CLI_EXTRA_OPTIONS |-> [k \in {} |-> <<>>],
     CLI_BOOL_PREFIX |-> CLI_BOOL_PREFIX,
     CLI_SHELL_COMPLETION_ENABLE |-> FALSE,
     CLI_SHELL_COMPLETION_FLAG |-> CLI_SHELL_COMPLETION_FLAG]

\* the environment variable is not read
_get_cli_config_from_model_without_env(cls, env) ==
    LET c == cls.Config IN
    [json_config_enable |-> c.CLI_JSON_ENABLE,
     json_config_key |-> c.CLI_JSON_KEY,
     json_config_env_var |-> c.CLI_JSON_CONFIG_ENV_VAR,
     json_config_path |-> c.CLI_JSON_CONFIG_PATH,
     json_config_path_validate |-> c.CLI_JSON_VALIDATE_PATH,
     bool_prefix |-> c.CLI_BOOL_PREFIX,
     custom_opts |-> c.CLI_EXTRA_OPTIONS,
     shell_completion_enable |-> c.CLI_SHELL_COMPLETION_ENABLE,
     shell_completion_flag |-> c.CLI_SHELL_COMPLETION_FLAG]

\* _get_cli_config_from_model: the environment variable, when set, replaces
\* the path declared in the model's Config.
_get_cli_config_from_model(cls, env) ==
    LET c == cls.Config IN
    [json_config_enable |-> c.CLI_JSON_ENABLE,
     json_config_key |-> c.CLI_JSON_KEY,
     json_config_env_var |-> c.CLI_JSON_CONFIG_ENV_VAR,
     json_config_path |-> DictGet(env, c.CLI_JSON_CONFIG_ENV_VAR, c.CLI_JSON_CONFIG_PATH),
     json_config_path_validate |-> c.CLI_JSON_VALIDATE_PATH,
     bool_prefix |-> c.CLI_BOOL_PREFIX,
     custom_opts |-> c.CLI_EXTRA_OPTIONS,
     shell_completion_enable |-> c.CLI_SHELL_COMPLETION_ENABLE,
     shell_completion_flag |-> c.CLI_SHELL_COMPLETION_FLAG]

json_config_key_sanitized(cli_config) == ReplaceDash(cli_config.json_config_key)

(***************************************************************************)
(* A pydantic model class: its name, its Config and its ordered fields.    *)
(* A field carries what _add_pydantic_field_to_parser reads from           *)
(* pydantic.fields.ModelField: type_, shape, required, allow_none,         *)
(* default, field_info.description is left out (help text only), and       *)
(* field_info.extra["extras"]["cli"] (cli; <<>> when the key is absent).   *)
(***************************************************************************)
Field(name, type_, shape, required, allow_none, default, cli, members) ==
    [name |-> name, type_ |-> type_, shape |-> shape, required |-> required,
     allow_none |-> allow_none, default |-> default, cli |-> cli, members |-> members]

Required(name, type_) == Field(name, type_, "SINGLETON", TRUE, FALSE, VNone, <<>>, {})
WithDefault(name, type_, d) == Field(name, type_, "SINGLETON", FALSE, FALSE, d, <<>>, {})

ModelClass(name, config, fields) == [name |-> name, Config |-> config, fields |-> fields]

FieldNames(cls) == {cls.fields[k].name : k \in 1..Len(cls.fields)}
FieldOf(cls, name) == cls.fields[CHOOSE k \in 1..Len(cls.fields) : cls.fields[k].name = name]

(***************************************************************************)
(* The argparse parser object: the registered actions in registration      *)
(* order, the mutually exclusive groups (their required flags), the        *)
(* set_defaults mapping and, for the sub-command parser, the name to       *)
(* parser map.  err is the exception raised while the parser was built.    *)
(***************************************************************************)
Action(option_strings, dest, kind, nargs, default, required, has_choices, choices, type, group) ==
    [option_strings |-> option_strings, dest |-> dest, kind |-> kind, nargs |-> nargs,
     default |-> default, required |-> required, has_choices |-> has_choices,
     choices |-> choices, type |-> type, group |-> group]

NoSubparsers == [k \in {} |-> 0]

\* CustomArgumentParser(add_help=False)
CustomArgumentParser ==
    [actions |-> <<>>, groups |-> <<>>, defaults |-> EmptyDict,
     name_parser_map |-> NoSubparsers, err |-> "none"]

add_argument(p, a) == [p EXCEPT !.actions = Append(@, a)]
add_mutually_exclusive_group(p, required) == [p EXCEPT !.groups = Append(@, required)]
set_defaults(p, func, cls) ==
    [p EXCEPT !.defaults = DictSet(DictSet(@, "func", VRef(func)), "cls", VRef(cls))]
Fail(p, e) == [p EXCEPT !.err = e]

\* --help registered with argparse's own help action, whose exit(0)
\* CustomArgumentParser.exit lets return
_parser_add_help_stock(p) ==
    add_argument(p, Action(<<"--help">>, "==SUPPRESS==", "_HelpAction", "0",
                           SUPPRESS, FALSE, FALSE, {}, "None", 0))

\* argparse.py
_parser_add_help(p) ==
    add_argument(p, Action(<<"--help">>, "==SUPPRESS==", "EagerHelpAction", "0",
                           SUPPRESS, FALSE, FALSE, {}, "None", 0))

_parser_add_version(p, version) ==
    add_argument(p, Action(<<"--version">>, "==SUPPRESS==", "EagerVersionAction", "0",
                           SUPPRESS, FALSE, FALSE, {}, "None", 0))

\* shell_completion.py
SUPPORTED_SHELLS == {VStr("zsh"), VStr("bash")}
add_shell_completion_arg(p, auto_complete_flag) ==
    add_argument(p, Action(<<auto_complete_flag>>, ReplaceDash(SubSeq(auto_complete_flag, 3, Len(auto_complete_flag))),
                           "EmitShellCompletionAction", "None", VNone, FALSE, TRUE,
                           SUPPORTED_SHELLS, "None", 0))

\* __process_tuple: [err, opts]
is_short(xs) == Len(xs) = 2
\* the tokens of a spec taken as they are, the long flag never added
process_tuple_verbatim(tuple_one_or_two, long_arg) ==
    IF Len(tuple_one_or_two) \in {1, 2} THEN [err |-> "none", opts |-> tuple_one_or_two]
    ELSE [err |-> "ValueError", opts |-> <<>>]

\* a spec of any length accepted: its first two tokens are the flags
process_tuple_first_two(tuple_one_or_two, long_arg) ==
    IF Len(tuple_one_or_two) = 1
    THEN [err |-> "none", opts |-> <<tuple_one_or_two[1], long_arg>>]
    ELSE [err |-> "none", opts |-> SubSeq(tuple_one_or_two, 1, 2)]

process_tuple(tuple_one_or_two, long_arg) ==
    LET nx == Len(tuple_one_or_two) IN
    IF nx = 1 THEN
        IF is_short(tuple_one_or_two[1])
        THEN [err |-> "none", opts |-> <<tuple_one_or_two[1], long_arg>>]
        ELSE [err |-> "none", opts |-> <<tuple_one_or_two[1]>>]
    ELSE IF nx = 2 THEN [err |-> "none", opts |-> tuple_one_or_two]
    ELSE [err |-> "ValueError", opts |-> <<>>]

\* the action stores the default itself instead of its negation
add_boolean_arg_negate_to_parser_same(parser, field_id, cli_custom, default_value) ==
    add_argument(parser,
        Action(cli_custom, field_id,
               IF default_value.i = 0 THEN "store_false" ELSE "store_true",
               "0", default_value, FALSE, FALSE, {}, "None", 0))

\* __add_boolean_arg_negate_to_parser
add_boolean_arg_negate_to_parser(parser, field_id, cli_custom, default_value) ==
    add_argument(parser,
        Action(cli_custom, field_id,
               IF default_value.i = 0 THEN "store_true" ELSE "store_false",
               "0", default_value, FALSE, FALSE, {}, "None", 0))

\* the two flags registered outside any mutually exclusive group
add_boolean_arg_to_parser_ungrouped(parser, field_id, cli_custom, default_value, is_required) ==
    IF Len(cli_custom) = 2 THEN
        add_argument(
            add_argument(parser, Action(<<cli_custom[1]>>, field_id, "store_true", "0",
                                        default_value, FALSE, FALSE, {}, "None", 0)),
            Action(<<cli_custom[2]>>, field_id, "store_false", "0",
                   default_value, FALSE, FALSE, {}, "None", 0))
    ELSE Fail(parser, "ValueError")

\* __add_boolean_arg_to_parser
add_boolean_arg_to_parser(parser, field_id, cli_custom, default_value, is_required) ==
    IF Len(cli_custom) = 2 THEN
        LET p1 == add_mutually_exclusive_group(parser, is_required)
            g == Len(p1.groups)
            p2 == IF ~PyEq(VBool(TRUE), default_value)
                  THEN add_argument(p1, Action(<<cli_custom[1]>>, field_id, "store_true", "0",
                                               default_value, FALSE, FALSE, {}, "None", g))
                  ELSE p1
            p3 == IF ~PyEq(VBool(FALSE), default_value)
                  THEN add_argument(p2, Action(<<cli_custom[2]>>, field_id, "store_false", "0",
                                               default_value, FALSE, FALSE, {}, "None", g))
                  ELSE p2
        IN p3
    ELSE Fail(parser, "ValueError")

\* hash(v) raises TypeError for a list, which `v in {...}` needs
Hashable(v) == v.t # "list"

\* a nullable field taken as required whatever the schema reports
is_required_of_nullable(field, override_value) ==
    IF override_value # NOT_PROVIDED THEN FALSE ELSE field.required \/ field.allow_none

\* required=is_required left out of the registration
is_required_dropped(field, override_value) == FALSE

\* _add_pydantic_field_to_parser: an override makes the field optional ...
is_required(field, override_value) ==
    IF override_value # NOT_PROVIDED THEN FALSE ELSE field.required

\* the override is not taken as the default
default_value_of_schema(field, override_value) == field.default

\* ... and becomes its default
default_value(field, override_value) ==
    IF override_value # NOT_PROVIDED THEN override_value ELSE field.default

\* no choices registered for an Enum type
choices_not_registered(field) == [given |-> FALSE, values |-> {}]

\* _add_pydantic_field_to_parser: an Enum type registers its members' values
\* as the choices of the flag
choices(field) == [given |-> field.members # {}, values |-> field.members]

\* no nargs for any shape
shape_kwargs_empty(field) == "None"

\* _add_pydantic_field_to_parser: a list or a set takes nargs="+"
shape_kwargs(field) == IF field.shape \in {"LIST", "SET"} THEN "+" ELSE "None"

\* _add_pydantic_field_to_parser
_add_pydantic_field_to_parser(parser, field_id, field, override_value, override_cli, bool_prefix) ==
    LET long_prefix == "--"
        default_long_arg == long_prefix \o field_id
        is_bool_with_non_null_default ==
            /\ ~is_required(field, override_value)
            /\ ~field.allow_none
            /\ PyIn(default_value(field, override_value), {VBool(TRUE), VBool(FALSE)})
        custom ==
            IF field.cli # <<>> THEN process_tuple(field.cli, default_long_arg)
            ELSE IF override_cli = <<>> THEN
                [err |-> "none",
                 opts |-> IF field.type_ = "bool" THEN
                              IF is_bool_with_non_null_default
                              THEN <<(IF default_value(field, override_value).i = 1
                                      THEN bool_prefix[2] ELSE bool_prefix[1]) \o field_id>>
                              ELSE <<bool_prefix[1] \o field_id, bool_prefix[2] \o field_id>>
                          ELSE <<default_long_arg>>]
            ELSE process_tuple(override_cli, default_long_arg)
        cli_custom == custom.opts
        nargs == shape_kwargs(field)
    IN
    IF parser.err # "none" THEN parser
    ELSE IF ~Hashable(default_value(field, override_value)) THEN Fail(parser, "TypeError")
    ELSE IF custom.err # "none" THEN Fail(parser, custom.err)
    ELSE IF field.type_ = "bool" THEN
        IF is_bool_with_non_null_default
        THEN add_boolean_arg_negate_to_parser(parser, field_id, cli_custom,
                                              default_value(field, override_value))
        ELSE add_boolean_arg_to_parser(parser, field_id, cli_custom,
                                       default_value(field, override_value),
                                       is_required(field, override_value))
    ELSE add_argument(parser,
            Action(cli_custom, field_id, "store", nargs, default_value(field, override_value),
                   is_required(field, override_value),
                   choices(field).given, choices(field).values, "None", 0))

\* _add_pydantic_class_to_parser: the fields in schema order
RECURSIVE add_fields(_, _, _, _, _)
add_fields(p, cls, default_overrides, env, k) ==
    IF k > Len(cls.fields) THEN p
    ELSE LET field == cls.fields[k]
             ix == field.name
             cli_config == _get_cli_config_from_model(cls, env)
             default_cli_opts == DictGet(cli_config.custom_opts, ix, <<>>)
             override_value == DictGet(default_overrides, ix, NOT_PROVIDED)
         IN add_fields(_add_pydantic_field_to_parser(p, ix, field, override_value,
                                                     default_cli_opts, cli_config.bool_prefix),
                       cls, default_overrides, env, k + 1)

\* an override under a key that names no field refused
_add_pydantic_class_to_parser_strict(p, cls, default_overrides, env) ==
    IF DOMAIN default_overrides \subseteq {cls.fields[k].name : k \in 1..Len(cls.fields)}
    THEN add_fields(p, cls, default_overrides, env, 1)
    ELSE Fail(p, "KeyError")

_add_pydantic_class_to_parser(p, cls, default_overrides, env) ==
    add_fields(p, cls, default_overrides, env, 1)

\* the JSON flag whose validator never raises
_parser_add_arg_json_file_lenient(p, cli_config) ==
    add_argument(p, Action(<<"--" \o cli_config.json_config_key>>,
                           json_config_key_sanitized(cli_config), "store", "None",
                           cli_config.json_config_path, FALSE, FALSE, {},
                           "_resolve_file_or_none_and_warn", 0))

\* _parser_add_arg_json_file
_parser_add_arg_json_file(p, cli_config) ==
    LET validator == IF cli_config.json_config_path_validate
                     THEN "_resolve_file" ELSE "_resolve_file_or_none_and_warn"
        field == "--" \o cli_config.json_config_key
    IN add_argument(p, Action(<<field>>, json_config_key_sanitized(cli_config), "store", "None",
                              cli_config.json_config_path, FALSE, FALSE, {}, validator, 0))

\* pydantic_class_to_parser after the fields: the JSON flag, the shell
\* completion flag, --help, --version
_add_parser_options(p0, cli_config, version) ==
    LET p1 == IF cli_config.json_config_enable THEN _parser_add_arg_json_file(p0, cli_config) ELSE p0
        p2 == IF cli_config.shell_completion_enable
              THEN add_shell_completion_arg(p1, cli_config.shell_completion_flag) ELSE p1
        p3 == _parser_add_help(p2)
    IN IF p0.err # "none" THEN p0
       ELSE IF version # VNone THEN _parser_add_version(p3, version) ELSE p3

\* pydantic_class_to_parser; version is VNone or a string
pydantic_class_to_parser(cls, version, default_value_override, env) ==
    _add_parser_options(
        _add_pydantic_class_to_parser(CustomArgumentParser, cls, default_value_override, env),
        _get_cli_config_from_model(cls, env), version)

(***************************************************************************)
(* utils.py.  The file system maps a path to "missing", "invalid" (a file  *)
(* that is not JSON) or a flat JSON object (a mapping).  os.path.abspath   *)
(* is the identity on the absolute paths of the model.                     *)
(***************************************************************************)
Missing == [kind |-> "missing", d |-> EmptyDict]
Invalid == [kind |-> "invalid", d |-> EmptyDict]
JsonFile(d) == [kind |-> "json", d |-> d]

Exists(fs, path) == path \in DOMAIN fs /\ fs[path].kind # "missing"

_resolve_path_or_none(fs, path) == IF Exists(fs, path) THEN VStr(path) ELSE VNone

\* [exc, v]
_resolve_file_or_none_and_warn(fs, path) == [exc |-> "none", v |-> _resolve_path_or_none(fs, path)]

_resolve_file(fs, path) ==
    IF Exists(fs, path)
    THEN [exc |-> "none", v |-> VStr(path)]
    ELSE [exc |-> "IOError", v |-> VNone]

\* [exc, d]: open() fails on a missing file, json.load on a file that is not JSON
_load_json_file(fs, json_path) ==
    IF ~Exists(fs, json_path) THEN [exc |-> "IOError", d |-> EmptyDict]
    ELSE IF fs[json_path].kind = "invalid" THEN [exc |-> "JSONDecodeError", d |-> EmptyDict]
    ELSE [exc |-> "none", d |-> fs[json_path].d]

(***************************************************************************)
(* ArgumentParser.parse_known_args / parse_args as CustomArgumentParser    *)
(* runs them: error() calls exit(2, ...), which raises                     *)
(* FailedExecutionException(2); exit(0) returns to the caller.  The argv   *)
(* tokens of the model hold no "=", no space, no "--" on its own and no    *)
(* negative number.                                                        *)
(***************************************************************************)
HAS_AUTOCOMPLETE_SUPPORT == FALSE

Raise(st, exc, code) == [st EXCEPT !.exc = exc, !.code = code]
\* parser.error(message)
ArgError(st) == Raise(st, "FailedExecutionException", 2)

\* the option strings of a parser that arg abbreviates, one per (action, string)
OptionTuples(p, arg) ==
    {<<a, o>> \in (1..Len(p.actions)) \X (1..2) :
        /\ o <= Len(p.actions[a].option_strings)
        /\ StartsWith(p.actions[a].option_strings[o], arg)}

ExactActions(p, arg) ==
    {a \in 1..Len(p.actions) : arg \in SeqToSet(p.actions[a].option_strings)}

\* _parse_optional: "A" (positional), "O" with the action's index (0 when
\* the option is unknown), or "ambiguous"
_parse_optional(p, arg) ==
    IF Len(arg) = 0 THEN [kind |-> "A", action |-> 0]
    ELSE IF SubSeq(arg, 1, 1) # "-" THEN [kind |-> "A", action |-> 0]
    ELSE IF ExactActions(p, arg) # {}
        THEN [kind |-> "O", action |-> CHOOSE a \in ExactActions(p, arg) : TRUE]
    ELSE IF Len(arg) = 1 THEN [kind |-> "A", action |-> 0]
    ELSE IF Cardinality(OptionTuples(p, arg)) > 1 THEN [kind |-> "ambiguous", action |-> 0]
    ELSE IF Cardinality(OptionTuples(p, arg)) = 1
        THEN [kind |-> "O", action |-> (CHOOSE t \in OptionTuples(p, arg) : TRUE)[1]]
    ELSE [kind |-> "O", action |-> 0]

\* the number of "A" entries of pat from index i on, up to the next "O"
RECURSIVE CountA(_, _)
CountA(pat, i) == IF i > Len(pat) \/ pat[i].kind # "A" THEN 0 ELSE 1 + CountA(pat, i + 1)

\* _match_argument: the number of argument strings the action takes at i,
\* or -1 when the pattern does not match
_match_argument(action, pat, i) ==
    IF action.nargs = "0" THEN 0
    ELSE IF action.nargs = "None" THEN (IF CountA(pat, i) >= 1 THEN 1 ELSE -1)
    ELSE IF action.nargs = "+" THEN (IF CountA(pat, i) >= 1 THEN CountA(pat, i) ELSE -1)
    ELSE (IF CountA(pat, i) >= 1 THEN Len(pat) - i + 1 ELSE -1)

\* _get_value: the action's type function applied to one string
_get_value(action, fs, arg_string) ==
    IF action.type = "_resolve_file" THEN _resolve_file(fs, arg_string)
    ELSE IF action.type = "_resolve_file_or_none_and_warn"
        THEN _resolve_file_or_none_and_warn(fs, arg_string)
    ELSE [exc |-> "none", v |-> VStr(arg_string)]

\* _check_value
_check_value(action, value) == ~action.has_choices \/ PyIn(value, action.choices)

\* _get_values: [exc, v]; "ArgumentError" is an invalid choice
_get_values(action, fs, arg_strings) ==
    IF action.nargs = "0" THEN [exc |-> "none", v |-> VList(<<>>)]
    ELSE IF action.nargs = "None" THEN
        LET r == _get_value(action, fs, arg_strings[1]) IN
        IF r.exc # "none" THEN r
        ELSE IF ~_check_value(action, r.v) THEN [exc |-> "ArgumentError", v |-> VNone]
        ELSE r
    ELSE IF action.nargs = "+" THEN
        IF \E k \in 1..Len(arg_strings) : ~_check_value(action, VStr(arg_strings[k]))
        THEN [exc |-> "ArgumentError", v |-> VNone]
        ELSE [exc |-> "none", v |-> VList(arg_strings)]
    ELSE \* PARSER: only the first string, the parser's name, is checked
        IF ~_check_value(action, VStr(arg_strings[1]))
        THEN [exc |-> "ArgumentError", v |-> VNone]
        ELSE [exc |-> "none", v |-> VList(arg_strings)]

InitNamespace(p) ==
    LET dests == {p.actions[a].dest : a \in {b \in 1..Len(p.actions) :
                        p.actions[b].dest # "==SUPPRESS==" /\ p.actions[b].default # SUPPRESS}}
        first(d) == CHOOSE a \in 1..Len(p.actions) :
                        /\ p.actions[a].dest = d
                        /\ p.actions[a].default # SUPPRESS
                        /\ \A b \in 1..(a - 1) : p.actions[b].dest # d \/ p.actions[b].default = SUPPRESS
        ns0 == [d \in dests |-> p.actions[first(d)].default]
    IN [d \in dests \cup DOMAIN p.defaults |-> IF d \in dests THEN ns0[d] ELSE p.defaults[d]]

\* the classification of every argument string, made before any is consumed
RECURSIVE arg_strings_pattern(_, _)
arg_strings_pattern(p, args) ==
    IF Len(args) = 0 THEN <<>>
    ELSE Append(arg_strings_pattern(p, SubSeq(args, 1, Len(args) - 1)),
                _parse_optional(p, args[Len(args)]))

RECURSIVE parse_known_args(_, _, _)
RECURSIVE consume(_, _, _, _, _, _)
RECURSIVE consume_next(_, _, _, _, _, _)

HasSubparsers(p) == DOMAIN p.name_parser_map # {}
SubparsersAction(p) == CHOOSE a \in 1..Len(p.actions) : p.actions[a].kind = "_SubParsersAction"
PositionalLeft(p, st) == HasSubparsers(p) /\ SubparsersAction(p) \notin st.seen

\* _SubParsersAction.__call__: sub is what the chosen parser's
\* parse_known_args made of the strings after its name
_SubParsersAction(st, dest, parser_name, sub) ==
    IF sub.exc # "none" THEN Raise(st, sub.exc, sub.code)
    ELSE [st EXCEPT !.ns = DictUpdate(DictSet(@, dest, VStr(parser_name)), sub.ns),
                    !.extras = @ \o sub.extras,
                    !.help_printed = @ \/ sub.help_printed]

\* take_action: convert and check the argument strings, reject a second
\* flag of a mutually exclusive group, then run the action
take_action(p, a, argument_strings, st, fs) ==
    LET action == p.actions[a]
        r == _get_values(action, fs, argument_strings)
        st1 == [st EXCEPT !.seen = @ \cup {a}]
    IN
    IF r.exc = "ArgumentError" THEN ArgError(st1)
    ELSE IF r.exc # "none" THEN Raise(st1, r.exc, 0)
    ELSE IF action.group # 0 /\ \E b \in st.seen : b # a /\ p.actions[b].group = action.group
        THEN ArgError(st1)
    ELSE IF action.kind = "store" THEN [st1 EXCEPT !.ns = DictSet(@, action.dest, r.v)]
    ELSE IF action.kind = "store_true" THEN [st1 EXCEPT !.ns = DictSet(@, action.dest, VBool(TRUE))]
    ELSE IF action.kind = "store_false" THEN [st1 EXCEPT !.ns = DictSet(@, action.dest, VBool(FALSE))]
    ELSE IF action.kind \in {"EagerHelpAction", "EagerVersionAction"}
        THEN Raise(st1, "TerminalEagerCommand", 0)
    ELSE IF action.kind = "_HelpAction"
        \* argparse's own help: print_help(), then parser.exit(), that is
        \* CustomArgumentParser.exit(0), which returns
        THEN [st1 EXCEPT !.help_printed = TRUE]
    ELSE IF action.kind = "EmitShellCompletionAction" THEN
        IF ~HAS_AUTOCOMPLETE_SUPPORT THEN Raise(st1, "ImportError", 0)
        ELSE Raise(st1, "TerminalEagerCommand", 0)
    ELSE \* _SubParsersAction
        _SubParsersAction(st1, action.dest, argument_strings[1],
                          parse_known_args(p.name_parser_map[argument_strings[1]],
                                           SubSeq(argument_strings, 2, Len(argument_strings)), fs))

MaxOptionIndex(pat) ==
    IF \E k \in 1..Len(pat) : pat[k].kind = "O"
    THEN CHOOSE k \in 1..Len(pat) : pat[k].kind = "O" /\ \A j \in (k + 1)..Len(pat) : pat[j].kind # "O"
    ELSE 0

NextOptionIndex(pat, start) ==
    CHOOSE k \in start..Len(pat) : pat[k].kind = "O" /\ \A j \in start..(k - 1) : pat[j].kind # "O"

\* one round of the loop of _parse_known_args at start_index: the action
\* taken (0: none, -1: the option's arguments do not match) with its
\* strings, the strings left over, and the next start_index
consume_step(p, args, pat, st, start) ==
    IF start > MaxOptionIndex(pat) \/ pat[start].kind = "A" THEN \* consume_positionals
        IF PositionalLeft(p, st)
        THEN [a |-> SubparsersAction(p), strings |-> SubSeq(args, start, Len(args)),
              extras |-> <<>>, next |-> Len(args) + 1]
        ELSE IF start > MaxOptionIndex(pat)
        THEN [a |-> 0, strings |-> <<>>, extras |-> SubSeq(args, start, Len(args)),
              next |-> Len(args) + 1]
        ELSE [a |-> 0, strings |-> <<>>,
              extras |-> SubSeq(args, start, NextOptionIndex(pat, start) - 1),
              next |-> NextOptionIndex(pat, start)]
    ELSE \* consume_optional
        IF pat[start].action = 0
        THEN [a |-> 0, strings |-> <<>>, extras |-> <<args[start]>>, next |-> start + 1]
        ELSE IF _match_argument(p.actions[pat[start].action], pat, start + 1) = -1
        THEN [a |-> -1, strings |-> <<>>, extras |-> <<>>, next |-> start]
        ELSE [a |-> pat[start].action,
              strings |-> SubSeq(args, start + 1,
                                 start + _match_argument(p.actions[pat[start].action], pat, start + 1)),
              extras |-> <<>>,
              next |-> start + 1 + _match_argument(p.actions[pat[start].action], pat, start + 1)]

\* the loop of _parse_known_args from start_index on: positionals and
\* optionals alternately, then the strings left over
consume_next(p, args, pat, st, step, fs) ==
    IF step.a = -1 THEN ArgError(st)
    ELSE consume(p, args, pat,
                 IF step.a = 0 THEN [st EXCEPT !.extras = @ \o step.extras]
                 ELSE take_action(p, step.a, step.strings, st, fs),
                 step.next, fs)

consume(p, args, pat, st, start, fs) ==
    IF st.exc # "none" \/ start > Len(args) THEN st
    ELSE consume_next(p, args, pat, st, consume_step(p, args, pat, st, start), fs)

\* a string default converted by the action's type function
convert_default(st, dest, r) ==
    IF r.exc # "none" THEN Raise(st, r.exc, 0) ELSE [st EXCEPT !.ns = DictSet(@, dest, r.v)]

\* after the loop, for the actions not seen, in registration order
RECURSIVE convert_defaults(_, _, _, _)
convert_defaults(p, st, fs, a) ==
    IF a > Len(p.actions) \/ st.exc # "none" THEN st
    ELSE convert_defaults(p,
            IF /\ a \notin st.seen
               /\ ~p.actions[a].required
               /\ p.actions[a].default.t = "str"
               /\ p.actions[a].dest \in DOMAIN st.ns
               /\ st.ns[p.actions[a].dest] = p.actions[a].default
            THEN convert_default(st, p.actions[a].dest,
                                 _get_value(p.actions[a], fs, p.actions[a].default.s))
            ELSE st,
            fs, a + 1)

RequiredMissing(p, st) ==
    \/ \E a \in 1..Len(p.actions) : p.actions[a].required /\ a \notin st.seen
    \/ \E g \in 1..Len(p.groups) :
          p.groups[g] /\ ~\E a \in st.seen : p.actions[a].group = g

\* the required actions and groups are checked last
check_required(p, st) ==
    IF st.exc = "none" /\ RequiredMissing(p, st) THEN ArgError(st) ELSE st

namespace(p) ==
    [ns |-> InitNamespace(p), seen |-> {}, extras |-> <<>>, exc |-> "none",
     code |-> 0, help_printed |-> FALSE]

_parse_known_args(p, args, pat, fs) ==
    IF \E k \in 1..Len(args) : pat[k].kind = "ambiguous" THEN ArgError(namespace(p))
    ELSE check_required(p, convert_defaults(p, consume(p, args, pat, namespace(p), 1, fs), fs, 1))

parse_known_args(p, args, fs) == _parse_known_args(p, args, arg_strings_pattern(p, args), fs)

\* parse_args: strings left over are an error
error_on_extras(r) == IF r.exc = "none" /\ r.extras # <<>> THEN ArgError(r) ELSE r

parse_args(p, args, fs) == error_on_extras(parse_known_args(p, args, fs))

(***************************************************************************)
(* The schema/validation engine as the runner uses it: the constructor call on pure_d       *)
(* coerces every field's raw value to the field's type or raises           *)
(* ValidationError.                                                        *)
(***************************************************************************)
RECURSIVE Dedup(_)
Dedup(q) ==
    IF Len(q) = 0 THEN <<>>
    ELSE LET r == Dedup(SubSeq(q, 1, Len(q) - 1)) IN
         IF q[Len(q)] \in SeqToSet(r) THEN r ELSE Append(r, q[Len(q)])

BoolStrs == {"true", "false", "1", "0", "on", "off", "yes", "no", "t", "f", "y", "n"}
TrueStrs == {"true", "1", "on", "yes", "t", "y"}

\* one element of the field's type: [ok, v]
CoerceScalar(field, raw) ==
    IF field.members # {} THEN
        [ok |-> PyIn(raw, field.members), v |-> raw]
    ELSE IF field.type_ = "str" THEN
        IF raw.t = "str" THEN [ok |-> TRUE, v |-> raw]
        ELSE IF raw.t = "int" THEN [ok |-> TRUE, v |-> VStr(ToString(raw.i))]
        ELSE IF raw.t = "bool" THEN [ok |-> TRUE, v |-> VStr(IF raw.i = 1 THEN "True" ELSE "False")]
        ELSE [ok |-> FALSE, v |-> raw]
    ELSE IF field.type_ = "int" THEN
        IF raw.t \in {"int", "bool"} THEN [ok |-> TRUE, v |-> VInt(raw.i)]
        ELSE IF raw.t = "str" /\ IsIntStr(raw.s) THEN [ok |-> TRUE, v |-> VInt(ParseInt(raw.s))]
        ELSE [ok |-> FALSE, v |-> raw]
    ELSE \* bool
        IF raw.t = "bool" THEN [ok |-> TRUE, v |-> raw]
        ELSE IF raw.t = "int" /\ raw.i \in {0, 1} THEN [ok |-> TRUE, v |-> VBool(raw.i = 1)]
        ELSE IF raw.t = "str" /\ raw.s \in BoolStrs THEN [ok |-> TRUE, v |-> VBool(raw.s \in TrueStrs)]
        ELSE [ok |-> FALSE, v |-> raw]

CoerceField(field, raw) ==
    IF raw = VNone THEN [ok |-> field.allow_none, v |-> VNone]
    ELSE IF field.shape = "SINGLETON" THEN CoerceScalar(field, raw)
    ELSE IF raw.t # "list" THEN [ok |-> FALSE, v |-> raw]
    ELSE IF \E k \in 1..Len(raw.l) : ~CoerceScalar(field, VStr(raw.l[k])).ok
        THEN [ok |-> FALSE, v |-> raw]
    ELSE [ok |-> TRUE, v |-> VList(IF field.shape = "SET" THEN Dedup(raw.l) ELSE raw.l)]

\* the constructor call on pure_d: [exc, m]; a key pure_d lacks takes the field's default
Construct(cls, pure_d) ==
    LET given(f) == f.name \in DOMAIN pure_d
        raw(f) == IF given(f) THEN pure_d[f.name] ELSE f.default
        bad(f) == IF ~given(f) THEN f.required ELSE ~CoerceField(f, raw(f)).ok
        val(f) == IF given(f) THEN CoerceField(f, raw(f)).v ELSE f.default
    IN IF \E k \in 1..Len(cls.fields) : bad(cls.fields[k])
       THEN [exc |-> "ValidationError", m |-> EmptyDict]
       ELSE [exc |-> "none", m |-> [n \in FieldNames(cls) |-> val(FieldOf(cls, n))]]

(***************************************************************************)
(* The runners: to_runner / _runner_with_args (single command) and         *)
(* to_runner_sp / to_subparser (sub-commands).                             *)
(***************************************************************************)
null_setup_hook(args) == [exc |-> "none", d |-> EmptyDict, path |-> VNone]

\* the pre-pass parser given the eager --help of the real parser
create_parser_with_config_json_file_arg_and_help(cli_config) ==
    _parser_add_help(_parser_add_arg_json_file(CustomArgumentParser, cli_config))

create_parser_with_config_json_file_arg(cli_config) ==
    _parser_add_arg_json_file(CustomArgumentParser, cli_config)

\* the file named by the pre-parsed arguments is loaded: [exc, code, d, path]
_load_json_overrides(pjargs, json_config_path, fs) ==
    IF pjargs.exc # "none"
    THEN [exc |-> pjargs.exc, code |-> pjargs.code, d |-> EmptyDict, path |-> VNone]
    ELSE IF json_config_path # VNone
    THEN [exc |-> _load_json_file(fs, json_config_path.s).exc, code |-> 0,
          d |-> _load_json_file(fs, json_config_path.s).d, path |-> json_config_path]
    ELSE [exc |-> "none", code |-> 0, d |-> EmptyDict, path |-> VNone]

\* getattr(pjargs, cli_config.json_config_key_sanitized(), None)
getattr(pjargs, key) == DictGet(pjargs.ns, key, VNone)

_setup_hook_to_load_json(pjargs, cli_config, fs) ==
    _load_json_overrides(pjargs, getattr(pjargs, json_config_key_sanitized(cli_config)), fs)

\* setup_hook_to_load_json
setup_hook_to_load_json(args, cli_config, fs) ==
    _setup_hook_to_load_json(
        parse_known_args(create_parser_with_config_json_file_arg(cli_config), args, fs),
        cli_config, fs)

\* the JSON setup hook installed whatever CLI_JSON_ENABLE says
single_setup_enabled(cls, args, env, fs) ==
    setup_hook_to_load_json(args,
        [_get_cli_config_from_model(cls, env) EXCEPT !.json_config_path_validate = FALSE], fs)

\* the __setup closure of _runner_with_args
single_setup(cls, args, env, fs) ==
    LET cli_config == _get_cli_config_from_model(cls, env) IN
    IF cli_config.json_config_enable
    THEN setup_hook_to_load_json(args, [cli_config EXCEPT !.json_config_path_validate = FALSE], fs)
    ELSE [exc |-> "none", code |-> 0, d |-> EmptyDict, path |-> VNone]

\* the to_p closure of _runner_with_args
to_p(cls, runner_func, version, default_override_dict, env) ==
    set_defaults(pydantic_class_to_parser(cls, version, default_override_dict, env),
                 runner_func, cls.name)

\* the setup hook taken from the first sub-command
sp_setup_hook_first(subparsers, args, env, fs) ==
    LET cli_config == _get_cli_config_from_model(subparsers[1].model_class, env)
    IN IF cli_config.json_config_enable
       THEN setup_hook_to_load_json(args, cli_config, fs)
       ELSE [exc |-> "none", code |-> 0, d |-> EmptyDict, path |-> VNone]

\* the _setup_hook of to_runner_sp: the closure defined in the last
\* iteration of the loop over the sub-commands
sp_setup_hook(subparsers, args, env, fs) ==
    LET sbm == subparsers[Len(subparsers)]
        cli_config == _get_cli_config_from_model(sbm.model_class, env)
    IN IF cli_config.json_config_enable
       THEN setup_hook_to_load_json(args, cli_config, fs)
       ELSE [exc |-> "none", code |-> 0, d |-> EmptyDict, path |-> VNone]

\* every sub-command's parser bound to one and the same handler
_add_subparser_options_shared(spx0, cli_config, sbm) ==
    IF spx0.err # "none" THEN spx0
    ELSE set_defaults(_parser_add_help(spx0), "alpha_runner", sbm.model_class.name)

\* one sub-command's parser of to_subparser, after its fields
_add_subparser_options(spx0, cli_config, sbm) ==
    IF spx0.err # "none" THEN spx0
    ELSE set_defaults(
            _parser_add_help(IF cli_config.json_config_enable
                             THEN _parser_add_arg_json_file(spx0, cli_config) ELSE spx0),
            sbm.runner_func, sbm.model_class.name)

SubParserFor(sbm, overrides_defaults, env) ==
    _add_subparser_options(
        _add_pydantic_class_to_parser(CustomArgumentParser, sbm.model_class, overrides_defaults, env),
        _get_cli_config_from_model(sbm.model_class, env), sbm)

\* the top-level parser of to_subparser, which keeps argparse's own
\* -h/--help; spx[k] is the parser of models[k], and the first that failed
\* to build fails to_subparser
_to_subparser(models, version, spx) ==
    LET names == {models[k].name : k \in 1..Len(models)}
        last(n) == CHOOSE k \in 1..Len(models) :
                      models[k].name = n /\ \A j \in (k + 1)..Len(models) : models[j].name # n
        p0 == add_argument(CustomArgumentParser,
                  Action(<<"-h", "--help">>, "==SUPPRESS==", "_HelpAction", "0",
                         SUPPRESS, FALSE, FALSE, {}, "None", 0))
        p1 == add_argument(p0,
                  Action(<<>>, "commands", "_SubParsersAction", "PARSER",
                         VNone, TRUE, TRUE, {VStr(n) : n \in names}, "None", 0))
        p2 == [p1 EXCEPT !.name_parser_map = [n \in names |-> spx[last(n)]]]
    IN IF \E k \in 1..Len(models) : spx[k].err # "none"
       THEN Fail(p2, spx[CHOOSE k \in 1..Len(models) :
                        /\ spx[k].err # "none"
                        /\ \A j \in 1..(k - 1) : spx[j].err = "none"].err)
       ELSE IF version # VNone THEN _parser_add_version(p2, version) ELSE p2

\* to_subparser
to_subparser(models, version, overrides, env) ==
    _to_subparser(models, version,
                  [k \in 1..Len(models) |-> SubParserFor(models[k], overrides, env)])

\* _get_error_exit_code
_get_error_exit_code(ex, default_exit_code) ==
    IF ex.name = "FailedExecutionException" THEN ex.code ELSE default_exit_code

default_exception_handler(ex) == _get_error_exit_code(ex, 1)
default_minimal_exception_handler(ex) == _get_error_exit_code(ex, 1)

(***************************************************************************)
(* The model classes and runners explored (examples/simple.py,             *)
(* simple_with_enum.py, simple_with_json_config.py, simple_with_list.py,   *)
(* subparser.py), each with the argv tokens tried on it.                   *)
(***************************************************************************)
Options ==
    ModelClass("Options", DefaultConfig,
               <<Required("input_file", "str"), Required("max_records", "int")>>)

State == {VStr("RUNNING"), VStr("FAILED"), VStr("SUCCESSFUL")}
Mode == {VStr("1"), VStr("2")}
EnumOptions ==
    ModelClass("EnumOptions", DefaultConfig,
               <<Field("states", "State", "SET", TRUE, FALSE, VNone, <<>>, State),
                 Field("mode", "Mode", "SINGLETON", TRUE, FALSE, VNone, <<>>, Mode),
                 WithDefault("max_records", "int", VInt(100))>>)

JsonConfig(path, validate) ==
    [DefaultConfig EXCEPT !.CLI_JSON_ENABLE = TRUE,
                          !.CLI_JSON_CONFIG_PATH = path,
                          !.CLI_JSON_VALIDATE_PATH = validate]

Opts(path, validate) ==
    ModelClass("Opts", JsonConfig(path, validate),
               <<Required("hdf_file", "str"), WithDefault("max_records", "int", VInt(10))>>)

ListOptions ==
    ModelClass("ListOptions", JsonConfig(NoPath, TRUE),
               <<Field("input_file", "str", "LIST", TRUE, FALSE, VNone, <<>>, {})>>)

AlphaOptions ==
    ModelClass("AlphaOptions",
               [DefaultConfig EXCEPT !.CLI_EXTRA_OPTIONS =
                    [k \in {"input_file", "max_records"} |->
                        IF k = "input_file" THEN <<"-i">> ELSE <<"-m", "--max-records">>]],
               <<Required("input_file", "str"), WithDefault("max_records", "int", VInt(10))>>)

BetaOptions ==
    ModelClass("BetaOptions",
               [DefaultConfig EXCEPT !.CLI_EXTRA_OPTIONS =
                    [k \in {"input_file", "num_retries"} |->
                        IF k = "input_file" THEN <<"-i">> ELSE <<"-n", "--num-retries">>]],
               <<Required("input_file", "str"), WithDefault("num_retries", "int", VInt(3))>>)

\* examples/simple_with_boolean.py
BooleanOptions ==
    ModelClass("BooleanOptions", DefaultConfig,
               <<Required("input_file", "str"),
                 WithDefault("run_training", "bool", VBool(TRUE)),
                 WithDefault("dry_run", "bool", VBool(FALSE))>>)

\* examples/simple_with_boolean_custom.py: alpha: bool, beta_filter: bool =
\* Field(False, extras={"cli": ("-b", "--beta-filter")}), gamma: Optional[bool]
CustomBooleanOptions ==
    ModelClass("CustomBooleanOptions", DefaultConfig,
               <<Required("alpha", "bool"),
                 Field("beta_filter", "bool", "SINGLETON", FALSE, FALSE, VBool(FALSE),
                       <<"-b", "--beta-filter">>, {}),
                 Field("gamma", "bool", "SINGLETON", FALSE, TRUE, VNone, <<>>, {})>>)

\* examples/subparser.py with CLI_JSON_ENABLE = True, as the example declares it
JsonEnabled(cls) == [cls EXCEPT !.Config.CLI_JSON_ENABLE = TRUE]

SubParser(name, model_class, runner_func) ==
    [name |-> name, model_class |-> model_class, runner_func |-> runner_func]

NoClass == ModelClass("", DefaultConfig, <<>>)
ExceptionHandlers == {"default_exception_handler", "default_minimal_exception_handler", "custom"}
Versions == {VNone, VStr("0.1.0")}

\* to_runner(cls, runner_func, version=..., exception_handler=...)
to_runner(cls, runner_func, version, exception_handler) ==
    [mode |-> "single", cls |-> cls, runner_func |-> runner_func, subparsers |-> <<>>,
     version |-> version, exception_handler |-> exception_handler]

\* to_runner_sp(subparsers, version=..., exception_handler=...)
to_runner_sp(subparsers, version, exception_handler) ==
    [mode |-> "sub", cls |-> NoClass, runner_func |-> "", subparsers |-> subparsers,
     version |-> version, exception_handler |-> exception_handler]

NoEnv == [k \in {} |-> VNone]
EnvWith(path) == [k \in {CLI_JSON_CONFIG_ENV_VAR} |-> VStr(path)]
NoFiles == [k \in {} |-> Missing]

\* the JSON objects a config file may hold for Opts
OptsJson ==
    {EmptyDict,
     [k \in {"hdf_file"} |-> VStr("j.hdf")],
     [k \in {"max_records"} |-> VInt(7)],
     [k \in {"hdf_file", "max_records"} |-> IF k = "hdf_file" THEN VStr("j.hdf") ELSE VInt(7)]}

\* c.json is the file named on the command line, d.json the one a Config
\* declares, e.json the one the environment names; m.json never exists
OptsFiles ==
    {[k \in {"c.json", "d.json", "e.json"} |->
        IF k = "c.json" THEN c
        ELSE IF k = "d.json" THEN JsonFile([j \in {"max_records"} |-> VInt(8)])
        ELSE JsonFile([j \in {"hdf_file"} |-> VStr("e.hdf")])] :
        c \in {Missing, Invalid} \cup {JsonFile(o) : o \in OptsJson}}

ListFiles ==
    {[k \in {"c.json"} |-> c] :
        c \in {Missing, Invalid, JsonFile([k \in {"input_file"} |-> VList(<<"a">>)])}}

Scenario(runner, tokens, envs, filesystems) ==
    [runner |-> runner, tokens |-> tokens, envs |-> envs, filesystems |-> filesystems]

\* a runner is tried under every exception handler or under every version
Scenarios ==
    {Scenario(to_runner(Options, "example_runner", VStr("0.1.0"), h),
              {"--input_file", "f.txt", "--max_records", "10", "--help", "--version"},
              {NoEnv}, {NoFiles}) : h \in ExceptionHandlers}
    \cup
    {Scenario(to_runner(Options, "example_runner", VNone, "default_exception_handler"),
              {"--input_file", "f.txt", "--max_records", "10", "--help", "--version"},
              {NoEnv}, {NoFiles})}
    \cup
    {Scenario(to_runner(EnumOptions, "example_runner", VNone, h),
              {"--states", "RUNNING", "BAD_STATE", "--mode", "1", "--help"},
              {NoEnv}, {NoFiles}) : h \in {"default_exception_handler", "custom"}}
    \cup
    {Scenario(to_runner(ListOptions, "example_runner", VNone, h),
              {"--json-config", "c.json", "--input_file", "a", "--help"},
              {NoEnv}, ListFiles) : h \in {"default_exception_handler", "custom"}}
    \cup
    {Scenario(to_runner_sp(<<SubParser("alpha", AlphaOptions, "alpha_runner"),
                             SubParser("beta", BetaOptions, "beta_runner")>>, v, h),
              {"alpha", "beta", "-i", "f.txt", "--help", "--version"},
              {NoEnv}, {NoFiles}) : v \in Versions, h \in {"default_exception_handler", "custom"}}

\* examples/simple_with_boolean_custom.py: input_file: str, outfile:
\* Optional[str] (for which pydantic reports required False and default
\* None), report_json: Optional[str] = Field(...)
OptionalOptions ==
    ModelClass("OptionalOptions", DefaultConfig,
               <<Required("input_file", "str"),
                 Field("outfile", "str", "SINGLETON", FALSE, TRUE, VNone, <<>>, {}),
                 Field("report_json", "str", "SINGLETON", TRUE, TRUE, VNone, <<>>, {})>>)

\* c.json is missing, or overrides report_json
OptionalFiles ==
    {[k \in {"c.json"} |-> c] :
        c \in {Missing, JsonFile([k \in {"report_json"} |-> VStr("r.json")])}}

\* Opts with a Config that names a JSON path and leaves CLI_JSON_ENABLE at
\* its default, False
OptsNoJson ==
    ModelClass("OptsNoJson",
               [DefaultConfig EXCEPT !.CLI_JSON_CONFIG_PATH = VStr("d.json")],
               <<Required("hdf_file", "str"), WithDefault("max_records", "int", VInt(10))>>)

\* c.json is not JSON, or overrides hdf_file
NoJsonFiles ==
    {f \in OptsFiles :
        f["c.json"] \in {Invalid, JsonFile([k \in {"hdf_file"} |-> VStr("j.hdf")])}}

\* c.json is missing, or overrides input_file
SubFiles ==
    {[k \in {"c.json"} |-> c] :
        c \in {Missing, JsonFile([k \in {"input_file"} |-> VStr("j.txt")])}}

JsonScenarios ==
    {Scenario(to_runner(Opts(path, validate), "runner", VNone, "default_exception_handler"),
              {"--json-config", "c.json", "--hdf_file", "--help"},
              {NoEnv, EnvWith("e.json")}, OptsFiles) :
        path \in {NoPath, VStr("d.json"), VStr("m.json")}, validate \in BOOLEAN}
    \cup
    {Scenario(to_runner(Opts(NoPath, TRUE), "runner", VNone, "custom"),
              {"--json-config", "c.json", "--hdf_file", "--help"},
              {NoEnv, EnvWith("e.json")}, OptsFiles)}
    \cup
    {Scenario(to_runner_sp(<<SubParser("alpha", JsonEnabled(AlphaOptions), "alpha_runner"),
                             SubParser("beta", JsonEnabled(BetaOptions), "beta_runner")>>,
                           VNone, "default_exception_handler"),
              {"alpha", "beta", "-i", "--json-config", "c.json"},
              {NoEnv}, SubFiles)}
    \cup
    {Scenario(to_runner([JsonEnabled(OptionalOptions) EXCEPT !.Config.CLI_SHELL_COMPLETION_ENABLE = TRUE],
                        "runner", VNone, "default_exception_handler"),
              {"--json-config", "c.json", "--input_file", "--outfile", "--report_json"},
              {NoEnv}, OptionalFiles)}
    \cup
    {Scenario(to_runner(OptsNoJson, "runner", VNone, "default_exception_handler"),
              {"--json-config", "c.json", "--hdf_file", "--help"},
              {NoEnv, EnvWith("e.json")}, NoJsonFiles)}

\* CLI_EXTRA_OPTIONS = {"input_file": spec}, or no entry when spec is <<>>
ExtraOptions(spec) ==
    IF spec = <<>> THEN [k \in {} |-> <<>>] ELSE [k \in {"input_file"} |-> spec]

\* input_file: str = Field(..., extras={"cli": cli}) and max_records: int = 10
\* under a Config with CLI_EXTRA_OPTIONS = {"input_file": extra}, after
\* examples/simple_with_custom.py and examples/simple_with_custom_and_setup_log.py
SpecOptions(name, cli, extra) ==
    ModelClass(name, [DefaultConfig EXCEPT !.CLI_EXTRA_OPTIONS = ExtraOptions(extra)],
               <<Field("input_file", "str", "SINGLETON", TRUE, FALSE, VNone, cli, {}),
                 WithDefault("max_records", "int", VInt(10))>>)

\* the custom specs tried on input_file: field-level alone, schema-level
\* alone, and both at once
SpecCases ==
    {SpecOptions("F0", <<>>, <<>>),
     SpecOptions("F1s", <<"-i">>, <<>>),
     SpecOptions("F1l", <<"--in">>, <<>>),
     SpecOptions("F2", <<"-i", "--in">>, <<>>),
     SpecOptions("F3", <<"-i", "--in", "--input">>, <<>>),
     SpecOptions("E1s", <<>>, <<"-f">>),
     SpecOptions("E2", <<>>, <<"-f", "--in">>),
     SpecOptions("E3", <<>>, <<"-f", "--in", "--input">>),
     SpecOptions("F1sE2", <<"-i">>, <<"-f", "--in">>),
     SpecOptions("F2E3", <<"-i", "--in">>, <<"-f", "--in", "--input">>)}

\* debug: a boolean in paired mode (required, or nullable with a default)
\* carrying a field-level spec, after examples/simple_with_boolean_custom.py
SpecBoolOptions(name, required, default, cli) ==
    ModelClass(name, DefaultConfig,
               <<Field("debug", "bool", "SINGLETON", required, ~required, default, cli, {})>>)

SpecBoolCases ==
    {SpecBoolOptions("B1s", TRUE, VNone, <<"-d">>),
     SpecBoolOptions("B1l", TRUE, VNone, <<"--dbg">>),
     SpecBoolOptions("B2", TRUE, VNone, <<"-d", "--no-debug">>),
     SpecBoolOptions("B2t", FALSE, VBool(TRUE), <<"-d", "--no-debug">>)}

\* the runners on which the synthesis of the flags is explored
FlagScenarios ==
    {Scenario(to_runner(BooleanOptions, "example_runner", VNone, "default_exception_handler"),
              {"--input_file", "f.txt", "--disable-run_training", "--enable-dry_run",
               "--enable-run_training", "--help"},
              {NoEnv}, {NoFiles}),
     Scenario(to_runner(CustomBooleanOptions, "example_runner", VNone, "default_exception_handler"),
              {"--enable-alpha", "--disable-alpha", "-b", "--beta-filter",
               "--enable-gamma", "--disable-gamma", "--help"},
              {NoEnv}, {NoFiles})}
    \cup
    {Scenario(to_runner(c, "example_runner", VNone, "default_exception_handler"),
              {"-i", "--in", "--input_file", "-f", "f.txt"},
              {NoEnv}, {NoFiles}) : c \in SpecCases}
    \cup
    {Scenario(to_runner(c, "example_runner", VNone, "default_exception_handler"),
              {"-d", "--debug", "--dbg", "--no-debug"},
              {NoEnv}, {NoFiles}) : c \in SpecBoolCases}
    \cup
    {Scenario(to_runner(JsonEnabled(SpecOptions("F3J", <<"-i", "--in", "--input">>, <<>>)),
                        "example_runner", VNone, "default_exception_handler"),
              {"--json-config", "c.json", "-i", "f.txt"},
              {NoEnv},
              {[k \in {"c.json"} |-> c] :
                  c \in {Missing, Invalid, JsonFile([k \in {"input_file"} |-> VStr("j.txt")])}})}

\* the runners on which the overrides of a JSON file are explored.
\* Single commands after examples/simple_with_boolean_custom.py and
\* examples/simple_with_boolean.py with JSON enabled and c.json declared as
\* the path: the file overrides a boolean with true, false, 1 or 0, and may
\* hold keys the schema does not declare; and a nullable boolean with a
\* pair of flags whose default the file may override; and
\* examples/simple_with_json_config.py with a version, whose file may be
\* missing or hold no JSON, under the default and a custom exception handler.
\* Sub-commands after examples/subparser.py whose Configs differ: alpha
\* keeps the default key and environment variable and declares d.json,
\* beta declares its own key, environment variable and e.json; each file
\* holds its own name as input_file.
OverrideScenarios ==
    LET alpha(e) == SubParser("alpha",
                        [AlphaOptions EXCEPT !.Config.CLI_JSON_ENABLE = e,
                                             !.Config.CLI_JSON_CONFIG_PATH = VStr("d.json")],
                        "alpha_runner")
        beta(e) == SubParser("beta",
                        [BetaOptions EXCEPT !.Config.CLI_JSON_ENABLE = e,
                                            !.Config.CLI_JSON_KEY = "beta-config",
                                            !.Config.CLI_JSON_CONFIG_ENV_VAR = "BETA_CONFIG",
                                            !.Config.CLI_JSON_CONFIG_PATH = VStr("e.json")],
                        "beta_runner")
        subfiles == [k \in {"c.json", "d.json", "e.json"} |->
                        JsonFile([j \in {"input_file"} |-> VStr(k)])]
        declared(cls) == [cls EXCEPT !.Config.CLI_JSON_ENABLE = TRUE,
                                     !.Config.CLI_JSON_CONFIG_PATH = VStr("c.json")]
        one(k, v) == [j \in {k} |-> v]
        extra == [j \in {"input_file", "verbose", "cls"} |-> VStr(j)]
    IN {Scenario(to_runner(declared(CustomBooleanOptions), "example_runner", VNone,
                           "default_exception_handler"),
                 {"--enable-alpha", "--disable-alpha", "-b", "--help"},
                 {NoEnv},
                 {[k \in {"c.json"} |-> JsonFile(o)] :
                     o \in {EmptyDict, one("beta_filter", VInt(1)), one("beta_filter", VInt(0)),
                            one("beta_filter", VBool(TRUE)), one("alpha", VBool(TRUE))}}),
        Scenario(to_runner(declared(BooleanOptions), "example_runner", VNone,
                           "default_exception_handler"),
                 {"--enable-dry_run", "--disable-dry_run", "--input_file", "f.txt"},
                 {NoEnv},
                 {[k \in {"c.json"} |-> JsonFile(o)] :
                     o \in {EmptyDict, one("dry_run", VBool(TRUE)), one("dry_run", VBool(FALSE)),
                            one("input_file", VStr("input_file")), extra,
                            DictSet(extra, "dry_run", VBool(TRUE))}})}
       \cup
       {Scenario(to_runner(declared(SpecBoolOptions("J2", FALSE, d, <<"-d", "--no-debug">>)),
                           "example_runner", VNone, "default_exception_handler"),
                 {"-d", "--no-debug"},
                 {NoEnv},
                 {[k \in {"c.json"} |-> JsonFile(o)] :
                     o \in {EmptyDict, one("debug", VBool(TRUE)), one("debug", VBool(FALSE))}}) :
            d \in {VNone, VBool(TRUE), VBool(FALSE)}}
       \cup
       {Scenario(to_runner(Opts(NoPath, TRUE), "runner", VStr("0.1.0"), h),
                 {"--json-config", "c.json", "--help", "--version"},
                 {NoEnv, EnvWith("c.json")},
                 {[k \in {"c.json"} |-> c] :
                     c \in {Missing, Invalid, JsonFile(one("hdf_file", VStr("j.hdf")))}}) :
            h \in {"default_exception_handler", "custom"}}
       \cup
       {Scenario(to_runner_sp(IF e[3] THEN <<beta(e[2]), alpha(e[1])>>
                                   ELSE <<alpha(e[1]), beta(e[2])>>,
                              VNone, "default_exception_handler"),
                 {"alpha", "beta", "--json-config", "--beta-config", "c.json"},
                 {NoEnv, EnvWith("c.json"), [k \in {"BETA_CONFIG"} |-> VStr("c.json")]},
                 {subfiles}) :
            e \in {<<TRUE, FALSE, FALSE>>, <<FALSE, TRUE, FALSE>>,
                   <<TRUE, TRUE, FALSE>>, <<TRUE, TRUE, TRUE>>}}

SeqsUpTo(S, n) == UNION {[1..k -> S] : k \in 0..n}

(***************************************************************************)
(* One invocation of _runner.  app, args, environ and files are its        *)
(* inputs; the other variables are _runner's locals, the exception in      *)
(* flight, and the calls made so far (trace), the mapping given to the     *)
(* model constructor (pure_d), the model given to the handler (handled),   *)
(* the code the handler returned (func_returned), the code given to the    *)
(* epilogue and the value returned.  The caller's functions (prologue,     *)
(* handler, epilogue) return or raise an exception derived from Exception. *)
(***************************************************************************)
VARIABLES app, args, environ, files, pc, custom_default_values, json_config_path,
          parser, pargs, pure_d, opts, exc, exit_code, trace, handled,
          func_returned, epilogue_code, returned

vars == <<app, args, environ, files, pc, custom_default_values, json_config_path,
          parser, pargs, pure_d, opts, exc, exit_code, trace, handled,
          func_returned, epilogue_code, returned>>

inputs == <<app, args, environ, files>>

NoCode == -1
NoExc == [name |-> "none", code |-> 0]
CustomExitCode == 7
HandlerReturns == {0, 3}
HandlerRaises == {[name |-> "RuntimeError", code |-> 0],
                  [name |-> "FailedExecutionException", code |-> 5]}

InitOf(scenarios) ==
    /\ \E sc \in scenarios :
         /\ app = sc.runner
         /\ args \in SeqsUpTo(sc.tokens, MaxArgs)
         /\ environ \in sc.envs
         /\ files \in sc.filesystems
    /\ pc = "setup_hook"
    /\ custom_default_values = EmptyDict
    /\ json_config_path = VNone
    /\ parser = CustomArgumentParser
    /\ pargs = EmptyDict
    /\ pure_d = EmptyDict
    /\ opts = EmptyDict
    /\ exc = NoExc
    /\ exit_code = NoCode
    /\ trace = <<>>
    /\ handled = EmptyDict
    /\ func_returned = NoCode
    /\ epilogue_code = NoCode
    /\ returned = NoCode

Init == InitOf(Scenarios)
InitJson == InitOf(JsonScenarios)

InitFlags == InitOf(FlagScenarios)
InitOverrides == InitOf(OverrideScenarios)

Classes(a) ==
    IF a.mode = "single" THEN {a.cls}
    ELSE {a.subparsers[k].model_class : k \in 1..Len(a.subparsers)}
ClassNamed(a, n) == CHOOSE c \in Classes(a) : c.name = n

\* custom_default_values = setup_hook(args)
SetupHook ==
    /\ pc = "setup_hook"
    /\ \E r \in {IF app.mode = "single"
                  THEN single_setup(app.cls, args, environ, files)
                  ELSE sp_setup_hook(app.subparsers, args, environ, files)} :
          IF r.exc # "none"
          THEN /\ exc' = [name |-> r.exc, code |-> r.code]
               /\ pc' = "except"
               /\ UNCHANGED <<custom_default_values, json_config_path>>
          ELSE /\ custom_default_values' = r.d
               /\ json_config_path' = r.path
               /\ pc' = "to_parser"
               /\ UNCHANGED exc
    /\ trace' = Append(trace, "setup_hook")
    /\ UNCHANGED <<inputs, parser, pargs, pure_d, opts, exit_code, handled, func_returned, epilogue_code, returned>>

\* parser = to_parser_with_overrides(custom_default_values)
ToParser ==
    /\ pc = "to_parser"
    /\ \E p \in {IF app.mode = "single"
                  THEN to_p(app.cls, app.runner_func, app.version, custom_default_values, environ)
                  ELSE to_subparser(app.subparsers, app.version, custom_default_values, environ)} :
          IF p.err # "none"
          THEN /\ exc' = [name |-> p.err, code |-> 0]
               /\ pc' = "except"
               /\ UNCHANGED parser
          ELSE /\ parser' = p
               /\ pc' = "parse_args"
               /\ UNCHANGED exc
    /\ trace' = Append(trace, "to_parser")
    /\ UNCHANGED <<inputs, custom_default_values, json_config_path, pargs, pure_d, opts,
                   exit_code, handled, func_returned, epilogue_code, returned>>

\* pargs = parser.parse_args(args)
ParseArgs ==
    /\ pc = "parse_args"
    /\ \E r \in {parse_args(parser, args, files)} :
          IF r.exc # "none"
          THEN /\ exc' = [name |-> r.exc, code |-> r.code]
               /\ pc' = "except"
               /\ UNCHANGED pargs
          ELSE /\ pargs' = r.ns
               /\ pc' = "construct"
               /\ UNCHANGED exc
    /\ trace' = Append(trace, "parse_args")
    /\ UNCHANGED <<inputs, custom_default_values, json_config_path, parser, pure_d, opts,
                   exit_code, handled, func_returned, epilogue_code, returned>>

\* the filter inverted: the entries the schema does not name
pure_items_inverted(d, pure_keys) == [k \in (DOMAIN d) \ pure_keys |-> d[k]]

\* no filter: every entry of the parsed namespace
pure_items_unfiltered(d, pure_keys) == d

\* {k: v for k, v in d.items() if k in pure_keys}
pure_items(d, pure_keys) == [k \in (DOMAIN d) \cap pure_keys |-> d[k]]

\* cls = pargs.cls; pure_d = the entries of pargs under the schema's
\* property names; opts = the constructor call on pure_d
ConstructModel ==
    /\ pc = "construct"
    /\ \E cls \in {ClassNamed(app, pargs["cls"].s)} :
       \E d \in {pure_items(pargs, FieldNames(cls))} :
       \E r \in {Construct(cls, d)} :
          /\ pure_d' = d
          /\ IF r.exc # "none"
             THEN /\ exc' = [name |-> r.exc, code |-> 0]
                  /\ pc' = "except"
                  /\ UNCHANGED opts
             ELSE /\ opts' = r.m
                  /\ pc' = "validate"
                  /\ UNCHANGED exc
    /\ trace' = Append(trace, "construct")
    /\ UNCHANGED <<inputs, custom_default_values, json_config_path, parser, pargs,
                   exit_code, handled, func_returned, epilogue_code, returned>>

\* cls.validate(opts): an instance of cls is returned as it is
Validate ==
    /\ pc = "validate"
    /\ pc' = "prologue"
    /\ trace' = Append(trace, "validate")
    /\ UNCHANGED <<inputs, custom_default_values, json_config_path, parser, pargs, pure_d,
                   opts, exc, exit_code, handled, func_returned, epilogue_code, returned>>

\* the prologue's exception is swallowed and the handler runs all the same
Prologue_swallowed ==
    /\ pc = "prologue"
    /\ pc' = "runner_func"
    /\ \E raises \in BOOLEAN :
         trace' = IF raises THEN trace \o <<"prologue", "prologue_raised">>
                  ELSE Append(trace, "prologue")
    /\ UNCHANGED <<inputs, custom_default_values, json_config_path, parser, pargs, pure_d,
                   opts, exc, exit_code, handled, func_returned, epilogue_code, returned>>

\* prologue_handler(opts): the caller's function returns or raises
Prologue ==
    /\ pc = "prologue"
    /\ \E raises \in BOOLEAN :
         IF raises
         THEN /\ exc' = [name |-> "RuntimeError", code |-> 0]
              /\ pc' = "except"
              /\ trace' = trace \o <<"prologue", "prologue_raised">>
         ELSE /\ pc' = "runner_func"
              /\ trace' = Append(trace, "prologue")
              /\ UNCHANGED exc
    /\ UNCHANGED <<inputs, custom_default_values, json_config_path, parser, pargs, pure_d,
                   opts, exit_code, handled, func_returned, epilogue_code, returned>>

\* the handler's code reduced to success or failure
RunnerFunc_normalised ==
    /\ pc = "runner_func"
    /\ \/ \E c \in HandlerReturns :
            /\ exit_code' = IF c = 0 THEN 0 ELSE 1
            /\ func_returned' = c
            /\ pc' = "epilogue"
            /\ UNCHANGED exc
       \/ \E e \in HandlerRaises :
            /\ exc' = e
            /\ pc' = "except"
            /\ UNCHANGED <<exit_code, func_returned>>
    /\ handled' = opts
    /\ trace' = Append(trace, pargs["func"].s)
    /\ UNCHANGED <<inputs, custom_default_values, json_config_path, parser, pargs, pure_d,
                   opts, epilogue_code, returned>>

\* exit_code = runner_func(opts): the caller's function returns a code or raises
RunnerFunc ==
    /\ pc = "runner_func"
    /\ \/ \E c \in HandlerReturns :
            /\ exit_code' = c
            /\ func_returned' = c
            /\ pc' = "epilogue"
            /\ UNCHANGED exc
       \/ \E e \in HandlerRaises :
            /\ exc' = e
            /\ pc' = "except"
            /\ UNCHANGED <<exit_code, func_returned>>
    /\ handled' = opts
    /\ trace' = Append(trace, pargs["func"].s)
    /\ UNCHANGED <<inputs, custom_default_values, json_config_path, parser, pargs, pure_d,
                   opts, epilogue_code, returned>>

\* except TerminalEagerCommand: exit_code = 0
ExceptTerminalEagerCommand ==
    /\ pc = "except"
    /\ exc.name = "TerminalEagerCommand"
    /\ exit_code' = 0
    /\ pc' = "epilogue"
    /\ UNCHANGED <<inputs, custom_default_values, json_config_path, parser, pargs, pure_d,
                   opts, exc, trace, handled, func_returned, epilogue_code, returned>>

exception_handler(h, ex) ==
    IF h = "default_exception_handler" THEN default_exception_handler(ex)
    ELSE IF h = "default_minimal_exception_handler" THEN default_minimal_exception_handler(ex)
    ELSE CustomExitCode

\* the except clause returns the exception handler's code at once
ExceptException_returns ==
    /\ pc = "except"
    /\ exc.name # "TerminalEagerCommand"
    /\ exit_code' = exception_handler(app.exception_handler, exc)
    /\ pc' = "return"
    /\ trace' = Append(trace, "exception_handler")
    /\ UNCHANGED <<inputs, custom_default_values, json_config_path, parser, pargs, pure_d,
                   opts, exc, handled, func_returned, epilogue_code, returned>>

\* except Exception as e: exit_code = exception_handler(e)
ExceptException ==
    /\ pc = "except"
    /\ exc.name # "TerminalEagerCommand"
    /\ exit_code' = exception_handler(app.exception_handler, exc)
    /\ pc' = "epilogue"
    /\ trace' = Append(trace, "exception_handler")
    /\ UNCHANGED <<inputs, custom_default_values, json_config_path, parser, pargs, pure_d,
                   opts, exc, handled, func_returned, epilogue_code, returned>>

\* epilogue_handler(exit_code, dt.total_seconds()): the caller's function
\* returns, or raises out of _runner
Epilogue ==
    /\ pc = "epilogue"
    /\ \E raises \in BOOLEAN : pc' = IF raises THEN "raised" ELSE "return"
    /\ epilogue_code' = exit_code
    /\ trace' = Append(trace, "epilogue")
    /\ UNCHANGED <<inputs, custom_default_values, json_config_path, parser, pargs, pure_d,
                   opts, exc, exit_code, handled, func_returned, returned>>

\* return exit_code
Return ==
    /\ pc = "return"
    /\ returned' = exit_code
    /\ pc' = "done"
    /\ UNCHANGED <<inputs, custom_default_values, json_config_path, parser, pargs, pure_d,
                   opts, exc, exit_code, trace, handled, func_returned, epilogue_code>>

Next ==
    \/ SetupHook
    \/ ToParser
    \/ ParseArgs
    \/ ConstructModel
    \/ Validate
    \/ Prologue
    \/ RunnerFunc
    \/ ExceptTerminalEagerCommand
    \/ ExceptException
    \/ Epilogue
    \/ Return

Spec == Init /\ [][Next]_vars
SpecJson == InitJson /\ [][Next]_vars

SpecFlags == InitFlags /\ [][Next]_vars
SpecOverrides == InitOverrides /\ [][Next]_vars

TypeOK ==
    /\ pc \in {"setup_hook", "to_parser", "parse_args", "construct", "validate", "prologue",
               "runner_func", "except", "epilogue", "return", "raised", "done"}
    /\ Len(args) <= MaxArgs
    /\ exit_code \in {NoCode, 0, 1, 2, 3, 5, CustomExitCode}

(***************************************************************************)
(* The vocabulary of the properties: the calls recorded in trace and the   *)
(* flags and values an argv supplies.                                      *)
(***************************************************************************)
RunnerFuncs == {"example_runner", "runner", "alpha_runner", "beta_runner"}
Called(e) == \E k \in 1..Len(trace) : trace[k] = e
Count(e) == Cardinality({k \in 1..Len(trace) : trace[k] = e})
HandlerCalls == Cardinality({k \in 1..Len(trace) : trace[k] \in RunnerFuncs})
PrologueRaised == Called("prologue_raised")
DefaultHandlers == {"default_exception_handler", "default_minimal_exception_handler"}

LongFlag(name) == "--" \o name
Dashed(tok) == StartsWith(tok, "-")
\* the token is the flag or an abbreviation of it
Names(tok, flag) == Len(tok) > 2 /\ StartsWith(flag, tok)
Supplies(argv, flag) == \E i \in 1..Len(argv) : Names(argv[i], flag)
\* the token after the last occurrence of the flag
LastValue(argv, flag) ==
    argv[(CHOOSE i \in 1..Len(argv) :
            /\ argv[i] = flag
            /\ \A j \in (i + 1)..Len(argv) : argv[j] # flag) + 1]

OnlyRequiredScalars(cls) ==
    \A k \in 1..Len(cls.fields) :
        LET f == cls.fields[k] IN
        /\ f.required
        /\ f.shape = "SINGLETON"
        /\ f.members = {}
        /\ f.type_ \in {"str", "int"}
        /\ f.cli = <<>>
        /\ f.name \notin DOMAIN cls.Config.CLI_EXTRA_OPTIONS

ValidFor(f, tok) == ~Dashed(tok) /\ (f.type_ = "int" => IsIntStr(tok))

\* argv is one flag/value pair per field, in any order, each value valid
SuppliesEveryField(argv, cls) ==
    /\ Len(argv) = 2 * Len(cls.fields)
    /\ \A k \in 1..Len(cls.fields) :
         \E i \in 1..Len(cls.fields) :
            /\ argv[2 * i - 1] = LongFlag(cls.fields[k].name)
            /\ ValidFor(cls.fields[k], argv[2 * i])

\* the model those pairs describe
SuppliedModel(argv, cls) ==
    [n \in FieldNames(cls) |->
        IF FieldOf(cls, n).type_ = "int"
        THEN VInt(ParseInt(LastValue(argv, LongFlag(n))))
        ELSE VStr(LastValue(argv, LongFlag(n)))]

(***************************************************************************)
(* C1.  For a schema whose fields are all required scalars (str, int), an  *)
(* argv that gives every field's flag one valid value makes the runner     *)
(* construct the model once, with exactly the supplied values; unless the  *)
(* caller's prologue raises, the handler is invoked exactly once, with     *)
(* that model; the exception handler runs only when the prologue or the    *)
(* handler raised; and when the handler returns 0 the runner returns 0.    *)
(***************************************************************************)
C1_Case ==
    /\ app.mode = "single"
    /\ OnlyRequiredScalars(app.cls)
    /\ SuppliesEveryField(args, app.cls)

C1_ValidArgvRunsHandler ==
    C1_Case =>
        /\ Count("construct") <= 1
        /\ HandlerCalls <= 1
        /\ (Called("construct") => opts = SuppliedModel(args, app.cls))
        /\ (HandlerCalls = 1 => handled = SuppliedModel(args, app.cls))
        /\ (Called("exception_handler") =>
                PrologueRaised \/ (HandlerCalls = 1 /\ func_returned = NoCode))
        /\ (pc = "done" /\ ~PrologueRaised => Count("construct") = 1 /\ HandlerCalls = 1)
        /\ (pc = "done" /\ func_returned = 0 => returned = 0)

C1_Witness ==
    /\ C1_Case
    /\ pc = "done"
    /\ HandlerCalls = 1
    /\ handled = SuppliedModel(args, app.cls)
    /\ handled["max_records"] = VInt(10)
    /\ func_returned = 0
    /\ returned = 0

(***************************************************************************)
(* C2.  For a schema with only required scalar fields and no override      *)
(* source, an argv that omits the flag of at least one field never gets    *)
(* the model constructed, nor the prologue or the handler invoked.  As     *)
(* stated, the runner then returns a non-zero exit code.                   *)
(***************************************************************************)
C2_Case ==
    /\ app.mode = "single"
    /\ OnlyRequiredScalars(app.cls)
    /\ ~app.cls.Config.CLI_JSON_ENABLE
    /\ \E k \in 1..Len(app.cls.fields) : ~Supplies(args, LongFlag(app.cls.fields[k].name))

C2_NothingRuns ==
    /\ ~Called("construct")
    /\ ~Called("prologue")
    /\ HandlerCalls = 0

C2_Original ==
    C2_Case => C2_NothingRuns /\ (pc = "done" => returned # 0)

\* C2 as it holds: the exit code is the exception handler's result for the
\* parser's error (2 with the default handlers), unless the parser reaches
\* an eager flag (--help, --version) before it misses the field: then the
\* exception handler is not invoked and the exit code is 0.
C2_Amended ==
    C2_Case =>
        /\ C2_NothingRuns
        /\ (pc = "done" =>
              IF exc.name = "TerminalEagerCommand"
              THEN /\ returned = 0
                   /\ ~Called("exception_handler")
                   /\ Supplies(args, "--help") \/ Supplies(args, "--version")
              ELSE /\ exc = [name |-> "FailedExecutionException", code |-> 2]
                   /\ Count("exception_handler") = 1
                   /\ returned # 0
                   /\ (app.exception_handler \in DefaultHandlers => returned = 2)
                   /\ (app.exception_handler = "custom" => returned = CustomExitCode))

C2_Witness ==
    /\ C2_Case
    /\ pc = "done"
    /\ Len(args) = 2
    /\ Supplies(args, "--max_records")
    /\ exc.name = "FailedExecutionException"
    /\ returned = 2

(***************************************************************************)
(* C3.  Under either default exception handler, a run whose argv parsing   *)
(* fails (the parser reports an error: unknown flag, missing required      *)
(* flag, missing or out-of-choice value) returns exit code exactly 1.      *)
(***************************************************************************)
C3_ParseFailed ==
    /\ Called("parse_args")
    /\ ~Called("construct")
    /\ exc.name = "FailedExecutionException"

C3_ParseFailureReturnsOne ==
    (app.exception_handler \in DefaultHandlers /\ pc = "done" /\ C3_ParseFailed)
        => returned = 1

(***************************************************************************)
(* C4.  Every field whose type is an enumeration is registered with the    *)
(* enum's declared values as the choices of its flag.  An argv that gives  *)
(* such a flag a token outside those values (for a set or list of the      *)
(* enum: any one of the flag's tokens) never gets the model constructed    *)
(* nor the prologue or the handler invoked: parse_args rejects it with the *)
(* parser's error, unless a --help earlier in argv ended parsing first.    *)
(***************************************************************************)
ActionsFor(p, dest) == {k \in 1..Len(p.actions) : p.actions[k].dest = dest}

C4_ChoicesRegistered ==
    \A k \in 1..Len(app.cls.fields) :
        LET f == app.cls.fields[k] IN
        f.members # {} =>
            /\ ActionsFor(parser, f.name) # {}
            /\ \A a \in ActionsFor(parser, f.name) :
                  /\ parser.actions[a].has_choices
                  /\ parser.actions[a].choices = f.members

\* argv[j] is a value of f's flag at i, and not a member of the enum
BadEnumToken(argv, f) ==
    \E i \in 1..Len(argv), j \in 1..Len(argv) :
        /\ argv[i] = LongFlag(f.name)
        /\ i < j
        /\ \A m \in (i + 1)..j : ~Dashed(argv[m])
        /\ (f.shape = "SINGLETON" => j = i + 1)
        /\ VStr(argv[j]) \notin f.members

C4_Case ==
    /\ app.mode = "single"
    /\ \E k \in 1..Len(app.cls.fields) :
          /\ app.cls.fields[k].members # {}
          /\ BadEnumToken(args, app.cls.fields[k])

C5_Case == app.mode = "single" /\ app.cls.Config.CLI_JSON_ENABLE

C6_Case == app.mode = "single" /\ app.cls.Config.CLI_JSON_ENABLE

C6_ExpectedPath ==
    LET flag == LongFlag(app.cls.Config.CLI_JSON_KEY)
        var == app.cls.Config.CLI_JSON_CONFIG_ENV_VAR
    IN IF Supplies(args, flag) THEN VStr(LastValue(args, flag))
       ELSE IF var \in DOMAIN environ THEN environ[var]
       ELSE app.cls.Config.CLI_JSON_CONFIG_PATH

C6_Resolved ==
    IF C6_ExpectedPath # VNone /\ Exists(files, C6_ExpectedPath.s)
    THEN C6_ExpectedPath ELSE VNone

C6_PathPrecedence ==
    C6_Case =>
        /\ (Called("to_parser") => json_config_path = C6_Resolved)
        /\ (Called("construct") =>
              /\ pargs["json_config"] = json_config_path
              /\ pargs["json_config"] = C6_Resolved)
        /\ (Called("parse_args") /\ ~Called("construct") /\ exc.name = "IOError" =>
              /\ app.cls.Config.CLI_JSON_VALIDATE_PATH
              /\ C6_Resolved = VNone)

\* Config path and environment variable both set, no flag: the
\* environment's file is loaded, the Config's is not
C6_Witness ==
    /\ C6_Case
    /\ pc = "done"
    /\ app.cls.Config.CLI_JSON_CONFIG_PATH = VStr("d.json")
    /\ environ = EnvWith("e.json")
    /\ ~Supplies(args, "--json-config")
    /\ json_config_path = VStr("e.json")
    /\ Called("construct")
    /\ pargs["json_config"] = VStr("e.json")
    /\ handled = [k \in {"hdf_file", "max_records"} |->
                     IF k = "hdf_file" THEN VStr("e.hdf") ELSE VInt(10)]

(***************************************************************************)
(* C7.  Round trip: for a JSON-enabled schema and a valid model m, a run   *)
(* whose argv is only the JSON-config flag and the path of a file holding  *)
(* m's flat mapping hands the handler a model equal to m and runs no       *)
(* exception handler unless the caller's prologue or handler raised; when  *)
(* the handler returns 0 the runner returns 0.                             *)
(***************************************************************************)
C7_Case ==
    /\ app.mode = "single"
    /\ app.cls.Config.CLI_JSON_ENABLE
    /\ Len(args) = 2
    /\ args[1] = LongFlag(app.cls.Config.CLI_JSON_KEY)
    /\ args[2] \in DOMAIN files
    /\ files[args[2]].kind = "json"
    /\ Construct(app.cls, files[args[2]].d).exc = "none"
    /\ Construct(app.cls, files[args[2]].d).m = files[args[2]].d

C7_RoundTrip ==
    C7_Case =>
        /\ (HandlerCalls = 1 => handled = files[args[2]].d)
        /\ (Called("exception_handler") =>
                PrologueRaised \/ (HandlerCalls = 1 /\ func_returned = NoCode))
        /\ (pc = "done" /\ ~PrologueRaised => HandlerCalls = 1)
        /\ (pc = "done" /\ func_returned = 0 => returned = 0)

(***************************************************************************)
(* C8.  For a single-command runner, an argv containing --help (or         *)
(* --version when a version string was supplied) never gets the model      *)
(* constructed nor the prologue or the handler invoked.  As stated, the    *)
(* exception handler is never invoked either and the exit code is 0,       *)
(* whatever other tokens argv contains.                                    *)
(***************************************************************************)
EagerFlags(a) == IF a.version # VNone THEN {"--help", "--version"} ELSE {"--help"}

C8_Case ==
    /\ app.mode = "single"
    /\ \E i \in 1..Len(args) : args[i] \in EagerFlags(app)

C8_NothingRuns ==
    /\ ~Called("construct")
    /\ ~Called("prologue")
    /\ HandlerCalls = 0

C8_Original ==
    C8_Case =>
        /\ C8_NothingRuns
        /\ ~Called("exception_handler")
        /\ (pc = "done" => returned = 0)

\* C8 as it holds: the exit code is 0, with no exception handler, exactly
\* when the parser reaches the eager flag; this it does when the flag is
\* the first token and no JSON override is loaded.  An error before the
\* flag is reached (the override pre-pass or the JSON load failing, an
\* earlier flag missing its value, an unknown earlier token) goes to the
\* exception handler, whose result is the exit code.
C8_Amended ==
    C8_Case =>
        /\ C8_NothingRuns
        /\ (pc = "done" =>
              IF exc.name = "TerminalEagerCommand"
              THEN /\ returned = 0
                   /\ ~Called("exception_handler")
                   /\ Called("parse_args")
              ELSE /\ exc.name # "none"
                   /\ Count("exception_handler") = 1
                   /\ returned = exception_handler(app.exception_handler, exc)
                   /\ returned # 0)
        /\ (pc = "done" /\ args[1] \in EagerFlags(app) /\ ~app.cls.Config.CLI_JSON_ENABLE
              => exc.name = "TerminalEagerCommand")

C8_Witness ==
    /\ C8_Case
    /\ pc = "done"
    /\ args = <<"--input_file", "f.txt", "--version", "--max_records">>
    /\ exc.name = "TerminalEagerCommand"
    /\ ~Called("exception_handler")
    /\ returned = 0

(***************************************************************************)
(* C9.  In sub-command mode, --help before any sub-command name, --help    *)
(* after a sub-command name, and --version at top level (when a version    *)
(* was supplied) each yield exit code 0 with no handler invoked.           *)
(***************************************************************************)
SubCommandNames(a) == {a.subparsers[k].name : k \in 1..Len(a.subparsers)}

C9_Case ==
    /\ app.mode = "sub"
    /\ Len(args) >= 1
    /\ \/ args[1] = "--help"
       \/ app.version # VNone /\ args[1] = "--version"
       \/ Len(args) >= 2 /\ args[1] \in SubCommandNames(app) /\ args[2] = "--help"

C9_SubCommandHelpExitsZero ==
    C9_Case =>
        /\ HandlerCalls = 0
        /\ (pc = "done" => returned = 0)

C11_FailedExecutionCodeVerbatim ==
    (pc = "done" /\ exc.name = "FailedExecutionException") => returned = exc.code

(***************************************************************************)
(* C12.  A boolean field that is not nullable and has a concrete default d *)
(* gets exactly one flag, named with the entry of the prefix pair that     *)
(* negates d (--enable-X when d is False, --disable-X when d is True); the *)
(* model receives not d when argv holds the flag and d when it does not.   *)
(***************************************************************************)
Gives(argv, flag) == \E i \in 1..Len(argv) : argv[i] = flag \/ Names(argv[i], flag)

BoolWithDefault(f) ==
    /\ f.type_ = "bool"
    /\ ~f.required
    /\ ~f.allow_none
    /\ f.default \in {VBool(TRUE), VBool(FALSE)}

HasCustomSpec(cls, f) == f.cli # <<>> \/ f.name \in DOMAIN cls.Config.CLI_EXTRA_OPTIONS
CustomSpec(cls, f) == IF f.cli # <<>> THEN f.cli ELSE cls.Config.CLI_EXTRA_OPTIONS[f.name]
\* the flags a custom spec of one or two tokens stands for
SpecFlagsOf(spec, name) ==
    IF Len(spec) = 1 /\ Len(spec[1]) = 2 THEN {spec[1], LongFlag(name)} ELSE SeqToSet(spec)

NegatingFlag(cls, f) ==
    (IF f.default = VBool(TRUE) THEN cls.Config.CLI_BOOL_PREFIX[2]
     ELSE cls.Config.CLI_BOOL_PREFIX[1]) \o f.name

Negated(f) == VBool(f.default = VBool(FALSE))

\* the field's registration is one action under exactly the flags given, and
\* the model holds not d if argv gives one of them, d if it gives none
C12_NegatesDefault(f, flags) ==
    /\ Called("parse_args") =>
          /\ Cardinality(ActionsFor(parser, f.name)) = 1
          /\ \A a \in ActionsFor(parser, f.name) :
                SeqToSet(parser.actions[a].option_strings) = flags
    /\ opts # EmptyDict =>
          opts[f.name] = IF \E fl \in flags : Gives(args, fl) THEN Negated(f) ELSE f.default

C12_Case == app.mode = "single" /\ ~app.cls.Config.CLI_JSON_ENABLE

C12_Original ==
    C12_Case =>
        \A k \in 1..Len(app.cls.fields) :
            BoolWithDefault(app.cls.fields[k]) =>
                C12_NegatesDefault(app.cls.fields[k], {NegatingFlag(app.cls, app.cls.fields[k])})

\* C12 as it holds: the prefix names the flag of a field that has no custom
\* CLI spec; a custom spec names the flags of the single action itself
C12_Amended ==
    C12_Case =>
        \A k \in 1..Len(app.cls.fields) :
            BoolWithDefault(app.cls.fields[k]) =>
                C12_NegatesDefault(app.cls.fields[k],
                    IF ~HasCustomSpec(app.cls, app.cls.fields[k])
                    THEN {NegatingFlag(app.cls, app.cls.fields[k])}
                    ELSE SpecFlagsOf(CustomSpec(app.cls, app.cls.fields[k]),
                                     app.cls.fields[k].name))

\* both defaults negated in one run
C12_Witness ==
    /\ pc = "done"
    /\ HandlerCalls = 1
    /\ app.cls.name = "BooleanOptions"
    /\ Gives(args, "--disable-run_training")
    /\ Gives(args, "--enable-dry_run")
    /\ handled["run_training"] = VBool(FALSE)
    /\ handled["dry_run"] = VBool(TRUE)

(***************************************************************************)
(* C13.  A boolean field without a usable default (required, or nullable   *)
(* with no default) gets two flags in one mutually exclusive group, which  *)
(* is required when the field is.  An argv that gives exactly one of them  *)
(* sets the field to True (the first flag) or False (the second); an argv  *)
(* that gives both, or gives neither when the field is required, is        *)
(* rejected: the model is never constructed, no handler runs, and the run  *)
(* ends with the parser's error unless an eager flag ended parsing first.  *)
(***************************************************************************)
BoolWithoutDefault(f) ==
    /\ f.type_ = "bool"
    /\ f.default = VNone
    /\ f.required \/ f.allow_none

\* the two flags: the prefix pair applied to the field's name
PairedFlags(cls, f) ==
    <<cls.Config.CLI_BOOL_PREFIX[1] \o f.name, cls.Config.CLI_BOOL_PREFIX[2] \o f.name>>

C13_Registered(f, flags) ==
    \E a1, a2 \in 1..Len(parser.actions) :
        /\ ActionsFor(parser, f.name) = {a1, a2}
        /\ parser.actions[a1].option_strings = <<flags[1]>>
        /\ parser.actions[a2].option_strings = <<flags[2]>>
        /\ parser.actions[a1].kind = "store_true"
        /\ parser.actions[a2].kind = "store_false"
        /\ parser.actions[a1].group \in 1..Len(parser.groups)
        /\ parser.actions[a2].group = parser.actions[a1].group
        /\ parser.groups[parser.actions[a1].group] = f.required
        /\ \A b \in 1..Len(parser.actions) :
              parser.actions[b].group = parser.actions[a1].group => b \in {a1, a2}

C13_Rejected ==
    /\ ~Called("construct")
    /\ HandlerCalls = 0
    /\ pc = "done" =>
          /\ returned # NoCode
          /\ \/ exc = [name |-> "FailedExecutionException", code |-> 2] /\ returned = 2
             \/ exc.name = "TerminalEagerCommand" /\ Gives(args, "--help") /\ returned = 0

C13_Field(f, flags) ==
    /\ Called("parse_args") => C13_Registered(f, flags)
    /\ (Gives(args, flags[1]) /\ Gives(args, flags[2])) => C13_Rejected
    /\ (~Gives(args, flags[1]) /\ ~Gives(args, flags[2]) /\ f.required) => C13_Rejected
    /\ (opts # EmptyDict /\ Gives(args, flags[1])) => opts[f.name] = VBool(TRUE)
    /\ (opts # EmptyDict /\ Gives(args, flags[2])) => opts[f.name] = VBool(FALSE)

C13_Case ==
    /\ app.mode = "single"
    /\ ~app.cls.Config.CLI_JSON_ENABLE
    /\ app.exception_handler \in DefaultHandlers

IsSequenceField(f) == f.shape \in {"LIST", "SET"}

FlagAt(argv, i, flag) == argv[i] = flag \/ Names(argv[i], flag)

LastFlagAt(argv, flag) ==
    CHOOSE i \in 1..Len(argv) :
        FlagAt(argv, i, flag) /\ \A j \in (i + 1)..Len(argv) : ~FlagAt(argv, j, flag)

\* the index of the last of the tokens that follow position i before the next flag
ValuesEnd(argv, i) ==
    CHOOSE j \in i..Len(argv) :
        /\ \A m \in (i + 1)..j : ~Dashed(argv[m])
        /\ j < Len(argv) => Dashed(argv[j + 1])

C14_Case == app.mode = "single"

C14_Field(f) ==
    /\ (Called("construct") /\ Gives(args, LongFlag(f.name))) =>
          /\ pargs[f.name] =
                VList(SubSeq(args, LastFlagAt(args, LongFlag(f.name)) + 1,
                             ValuesEnd(args, LastFlagAt(args, LongFlag(f.name)))))
          /\ Len(pargs[f.name].l) >= 1
    /\ (\E i \in 1..Len(args) : FlagAt(args, i, LongFlag(f.name)) /\ ValuesEnd(args, i) = i) =>
          /\ ~Called("construct")
          /\ HandlerCalls = 0
          /\ (pc = "done" /\ Called("parse_args")) =>
                \/ exc = [name |-> "FailedExecutionException", code |-> 2]
                \/ exc.name = "TerminalEagerCommand" /\ Gives(args, "--help")
                \/ exc.name = "IOError" /\ Gives(args, LongFlag(app.cls.Config.CLI_JSON_KEY))

C14_WitnessRejected ==
    /\ C14_Case
    /\ app.cls.name = "ListOptions"
    /\ args = <<"--input_file", "a", "--input_file">>
    /\ pc = "done"
    /\ Called("parse_args")
    /\ ~Called("construct")
    /\ exc = [name |-> "FailedExecutionException", code |-> 2]

(***************************************************************************)
(* C15.  Override resolution tolerates a JSON-config path that does not    *)
(* exist: when the path the setup hook resolves (an occurrence of the flag *)
(* in argv, else the environment's or the Config's path) names no file,    *)
(* the hook does not fail and, when that path is the one in force, returns *)
(* the empty override map; for the single-command runner and for the       *)
(* sub-command runner alike, whatever CLI_JSON_VALIDATE_PATH says.         *)
(***************************************************************************)
\* the class whose configuration the setup hook reads
HookClass(a) == IF a.mode = "single" THEN a.cls ELSE a.subparsers[Len(a.subparsers)].model_class

JsonFlag(a) == LongFlag(HookClass(a).Config.CLI_JSON_KEY)

\* every occurrence of the JSON flag is followed by a path
JsonFlagWellFormed(a, argv) ==
    \A i \in 1..Len(argv) :
        FlagAt(argv, i, JsonFlag(a)) => (i < Len(argv) /\ ~Dashed(argv[i + 1]))

\* the path in force: the flag's last value, else the environment's, else the Config's
JsonPathInForce(a, argv, env) ==
    IF Gives(argv, JsonFlag(a)) THEN VStr(argv[LastFlagAt(argv, JsonFlag(a)) + 1])
    ELSE DictGet(env, HookClass(a).Config.CLI_JSON_CONFIG_ENV_VAR,
                 HookClass(a).Config.CLI_JSON_CONFIG_PATH)

\* some path the hook resolves names no file
SomeJsonPathMissing(a, argv, env, fs) ==
    \/ \E i \in 1..(Len(argv) - 1) : FlagAt(argv, i, JsonFlag(a)) /\ ~Exists(fs, argv[i + 1])
    \/ /\ ~Gives(argv, JsonFlag(a))
       /\ JsonPathInForce(a, argv, env) # VNone
       /\ ~Exists(fs, JsonPathInForce(a, argv, env).s)

C15_Case ==
    /\ HookClass(app).Config.CLI_JSON_ENABLE
    /\ JsonFlagWellFormed(app, args)
    /\ SomeJsonPathMissing(app, args, environ, files)

C15_MissingPathTolerated ==
    (C15_Case /\ Called("setup_hook")) =>
        /\ pc = "to_parser" \/ Called("to_parser")
        /\ ~Exists(files, JsonPathInForce(app, args, environ).s) =>
              custom_default_values = EmptyDict /\ json_config_path = VNone

(***************************************************************************)
(* C16.  The real parser applies the schema's strictness to the            *)
(* JSON-config path.  With CLI_JSON_VALIDATE_PATH off, a path in force     *)
(* (flag, environment or Config) that names no file is ignored: no         *)
(* override is loaded, the parser resolves the path to none, and a run     *)
(* whose remaining args are valid reaches the handler with the values of   *)
(* argv and the schema defaults, returning 0 when the handler does.  With  *)
(* it on, a path that names no file is fatal: the handler is never         *)
(* invoked.  As stated, the runner then returns a non-zero code.           *)
(***************************************************************************)
\* the path in force names no file
JsonPathMissing(a, argv, env, fs) ==
    /\ JsonPathInForce(a, argv, env) # VNone
    /\ ~Exists(fs, JsonPathInForce(a, argv, env).s)

\* argv less the JSON flag and its value is one valid flag/value pair for
\* fields of the schema, every required field among them
RestValid(a, argv) ==
    /\ \A i \in 1..Len(argv) :
          \/ argv[i] = JsonFlag(a)
          \/ i > 1 /\ ~Dashed(argv[i]) /\ Dashed(argv[i - 1])
          \/ \E k \in 1..Len(a.cls.fields) :
                /\ argv[i] = LongFlag(a.cls.fields[k].name)
                /\ i < Len(argv)
                /\ ValidFor(a.cls.fields[k], argv[i + 1])
    /\ \A k \in 1..Len(a.cls.fields) :
          a.cls.fields[k].required => Gives(argv, LongFlag(a.cls.fields[k].name))

\* the model a run without any JSON config builds from argv
ModelWithoutJson(a, argv) ==
    [n \in FieldNames(a.cls) |->
        IF Gives(argv, LongFlag(n))
        THEN CoerceField(FieldOf(a.cls, n), VStr(LastValue(argv, LongFlag(n)))).v
        ELSE FieldOf(a.cls, n).default]

C16_Case ==
    /\ HookClass(app).Config.CLI_JSON_ENABLE
    /\ JsonFlagWellFormed(app, args)

C16_Lenient ==
    (C16_Case /\ ~HookClass(app).Config.CLI_JSON_VALIDATE_PATH
              /\ JsonPathMissing(app, args, environ, files)) =>
        /\ exc.name # "IOError"
        /\ Called("to_parser") => custom_default_values = EmptyDict
        /\ Called("construct") => pargs[ReplaceDash(HookClass(app).Config.CLI_JSON_KEY)] = VNone
        /\ (pc = "done" /\ RestValid(app, args) /\ ~PrologueRaised) =>
              /\ HandlerCalls = 1
              /\ handled = ModelWithoutJson(app, args)
              /\ func_returned = 0 => returned = 0

C16_StrictCase ==
    /\ C16_Case
    /\ HookClass(app).Config.CLI_JSON_VALIDATE_PATH
    /\ SomeJsonPathMissing(app, args, environ, files)

C16_Witness ==
    /\ C16_Case
    /\ pc = "done"
    /\ ~HookClass(app).Config.CLI_JSON_VALIDATE_PATH
    /\ HookClass(app).Config.CLI_JSON_CONFIG_PATH = VStr("m.json")
    /\ environ = NoEnv
    /\ args = <<"--hdf_file", "c.json">>
    /\ HandlerCalls = 1
    /\ handled["hdf_file"] = VStr("c.json")
    /\ returned = 0

Registered(p, name) ==
    UNION {SeqToSet(p.actions[a].option_strings) : a \in ActionsFor(p, name)}

\* the flags the spec in force stands for
SpecTokens(cls, f) ==
    IF HasCustomSpec(cls, f) THEN SpecFlagsOf(CustomSpec(cls, f), f.name)
    ELSE {LongFlag(f.name)}

\* some spec in force has more than two tokens
Malformed(cls) ==
    \E k \in 1..Len(cls.fields) :
        /\ HasCustomSpec(cls, cls.fields[k])
        /\ Len(CustomSpec(cls, cls.fields[k])) > 2

\* a boolean that gets the pair of flags: required, nullable, or without a
\* boolean default
PairedMode(f) == f.type_ = "bool" /\ ~BoolWithDefault(f)

\* a paired boolean whose spec is a single token that is not two characters long
PairMalformed(cls) ==
    \E k \in 1..Len(cls.fields) :
        /\ PairedMode(cls.fields[k])
        /\ HasCustomSpec(cls, cls.fields[k])
        /\ Len(CustomSpec(cls, cls.fields[k])) = 1
        /\ Len(CustomSpec(cls, cls.fields[k])[1]) # 2

\* the flags of a paired boolean under a spec: the first token sets True,
\* the second False, and the one that would set the default is left out
PairTokens(cls, f) ==
    LET spec == CustomSpec(cls, f)
        pair == IF Len(spec) = 1 THEN <<spec[1], LongFlag(f.name)>> ELSE spec
    IN (IF f.default # VBool(TRUE) THEN {pair[1]} ELSE {})
       \cup (IF f.default # VBool(FALSE) THEN {pair[2]} ELSE {})

ParserBuilt == pc = "parse_args" \/ Called("parse_args")
ParserRefused ==
    /\ exc.name = "ValueError"
    /\ ~ParserBuilt
    /\ parser = CustomArgumentParser
    /\ HandlerCalls = 0

C17_Case == app.mode = "single" /\ ~app.cls.Config.CLI_JSON_ENABLE

C17_Original ==
    (C17_Case /\ Called("to_parser")) =>
        IF Malformed(app.cls) THEN ParserRefused
        ELSE /\ ParserBuilt
             /\ \A k \in 1..Len(app.cls.fields) :
                   (HasCustomSpec(app.cls, app.cls.fields[k]) \/ app.cls.fields[k].type_ # "bool") =>
                       Registered(parser, app.cls.fields[k].name) =
                           SpecTokens(app.cls, app.cls.fields[k])

\* C17 as it holds: a boolean in paired mode needs two flags, so a single
\* token that is not two characters long is refused too, and of the two
\* flags the one that would set the default is not registered
C17_Amended ==
    (C17_Case /\ Called("to_parser")) =>
        IF Malformed(app.cls) \/ PairMalformed(app.cls) THEN ParserRefused
        ELSE /\ ParserBuilt
             /\ \A k \in 1..Len(app.cls.fields) :
                   (HasCustomSpec(app.cls, app.cls.fields[k]) \/ app.cls.fields[k].type_ # "bool") =>
                       Registered(parser, app.cls.fields[k].name) =
                           IF PairedMode(app.cls.fields[k])
                           THEN PairTokens(app.cls, app.cls.fields[k])
                           ELSE SpecTokens(app.cls, app.cls.fields[k])

\* the field-level short token beats the schema-level pair, and brings the
\* default long flag with it
C17_Witness ==
    /\ C17_Case
    /\ pc = "done"
    /\ "input_file" \in FieldNames(app.cls)
    /\ "input_file" \in DOMAIN app.cls.Config.CLI_EXTRA_OPTIONS
    /\ FieldOf(app.cls, "input_file").cli = <<"-i">>
    /\ app.cls.Config.CLI_EXTRA_OPTIONS["input_file"] = <<"-f", "--in">>
    /\ Registered(parser, "input_file") = {"-i", "--input_file"}
    /\ args = <<"-i", "f.txt">>
    /\ handled["input_file"] = VStr("f.txt")
    /\ returned = 0

\* three tokens in CLI_EXTRA_OPTIONS and no field-level spec: no parser
C17_WitnessRefused ==
    /\ C17_Case
    /\ pc = "done"
    /\ "input_file" \in FieldNames(app.cls)
    /\ "input_file" \in DOMAIN app.cls.Config.CLI_EXTRA_OPTIONS
    /\ FieldOf(app.cls, "input_file").cli = <<>>
    /\ Len(app.cls.Config.CLI_EXTRA_OPTIONS["input_file"]) = 3
    /\ ParserRefused
    /\ returned = 1

(***************************************************************************)
(* C18.  In sub-command mode the sub-command name on the command line (the *)
(* first token that is not a flag) selects one (schema, handler) pair: the *)
(* model constructed is an instance of that sub-command's schema, that     *)
(* sub-command's handler is the only handler invoked, at most once, and an *)
(* argv that holds no sub-command name gets no model and no handler.  As   *)
(* stated, such an argv always ends in a parse error.                      *)
(***************************************************************************)
\* argv has a token that is not a flag
HasCommand(argv) == \E i \in 1..Len(argv) : ~Dashed(argv[i])
\* the first of them
Command(argv) ==
    argv[CHOOSE i \in 1..Len(argv) :
            ~Dashed(argv[i]) /\ \A j \in 1..(i - 1) : Dashed(argv[j])]

\* the sub-command registered under a name
SubNamed(a, n) == a.subparsers[CHOOSE k \in 1..Len(a.subparsers) : a.subparsers[k].name = n]

\* no token of argv is a sub-command name
NoSubCommandName(a, argv) == \A i \in 1..Len(argv) : argv[i] \notin SubCommandNames(a)

\* the run is the one the command selects
Selects(sp) ==
    /\ pargs["commands"] = VStr(sp.name)
    /\ pargs["cls"] = VRef(sp.model_class.name)
    /\ pargs["func"] = VRef(sp.runner_func)
    /\ opts # EmptyDict => DOMAIN opts = FieldNames(sp.model_class)
    /\ \A k \in 1..Len(trace) : trace[k] \in RunnerFuncs => trace[k] = sp.runner_func
    /\ HandlerCalls = 1 => DOMAIN handled = FieldNames(sp.model_class)

C18_Dispatch ==
    /\ HandlerCalls <= 1
    /\ Count("construct") <= 1
    /\ Called("construct") =>
          /\ HasCommand(args)
          /\ Command(args) \in SubCommandNames(app)
          /\ Selects(SubNamed(app, Command(args)))
    /\ NoSubCommandName(app, args) => ~Called("construct") /\ HandlerCalls = 0

ParseError ==
    /\ Called("parse_args")
    /\ exc = [name |-> "FailedExecutionException", code |-> 2]
    /\ Count("exception_handler") = 1

C18_WitnessNoName ==
    /\ app.mode = "sub"
    /\ pc = "done"
    /\ args = <<"-i", "f.txt">>
    /\ ParseError
    /\ HandlerCalls = 0
    /\ returned = 2

(***************************************************************************)
(* C19.  A field declared with a nullable (Optional) type and no explicit  *)
(* default is still required on the command line: a run whose argv omits   *)
(* its flag is a parse error.  A field stops being required only through   *)
(* a default or an override.                                               *)
(***************************************************************************)
\* Optional[T] with no default value: the schema holds None as its default
Nullable(f) == f.allow_none /\ f.default = VNone

Overridden(f) == f.name \in DOMAIN custom_default_values

\* argv gives none of the flags the parser holds for the field
Omitted(f) == \A fl \in Registered(parser, f.name) : ~Gives(args, fl)

\* the parser demands the field: its action is required, or its group is
RequiredOnCli(f) ==
    \A a \in ActionsFor(parser, f.name) :
        \/ parser.actions[a].required
        \/ parser.actions[a].group # 0 /\ parser.groups[parser.actions[a].group]

C19_Case == app.mode = "single" /\ ParserBuilt

C19_Original ==
    C19_Case =>
        \A k \in 1..Len(app.cls.fields) :
            (Nullable(app.cls.fields[k]) /\ ~Overridden(app.cls.fields[k])) =>
                /\ RequiredOnCli(app.cls.fields[k])
                /\ Omitted(app.cls.fields[k]) => ~Called("construct")

\* C19 as it holds: the parser demands a field exactly when the schema
\* reports it required and no override names it; this the schema does not
\* for a nullable field declared without a default, whose flag may be
\* omitted and whose value is then None
C19_Amended ==
    C19_Case =>
        \A k \in 1..Len(app.cls.fields) :
            /\ RequiredOnCli(app.cls.fields[k]) <=>
                  (app.cls.fields[k].required /\ ~Overridden(app.cls.fields[k]))
            /\ (Omitted(app.cls.fields[k]) /\ RequiredOnCli(app.cls.fields[k])) =>
                  ~Called("construct") /\ HandlerCalls = 0
            /\ (Omitted(app.cls.fields[k]) /\ ~RequiredOnCli(app.cls.fields[k])
                   /\ Called("construct")) =>
                  pure_d[app.cls.fields[k].name] =
                     IF Overridden(app.cls.fields[k])
                     THEN custom_default_values[app.cls.fields[k].name]
                     ELSE app.cls.fields[k].default

\* outfile: Optional[str] is left out and the handler gets None for it;
\* report_json: Optional[str] = Field(...) is given
C19_Witness ==
    /\ C19_Case
    /\ pc = "done"
    /\ app.cls.name = "OptionalOptions"
    /\ custom_default_values = EmptyDict
    /\ Nullable(FieldOf(app.cls, "outfile"))
    /\ Omitted(FieldOf(app.cls, "outfile"))
    /\ ~Omitted(FieldOf(app.cls, "report_json"))
    /\ HandlerCalls = 1
    /\ handled["outfile"] = VNone
    /\ returned = 0

\* the override of c.json stands in for the flag of the required report_json
C19_WitnessOverride ==
    /\ C19_Case
    /\ pc = "done"
    /\ app.cls.name = "OptionalOptions"
    /\ Overridden(FieldOf(app.cls, "report_json"))
    /\ Omitted(FieldOf(app.cls, "report_json"))
    /\ HandlerCalls = 1
    /\ handled["report_json"] = VStr("r.json")

(***************************************************************************)
(* C20.  When the schema leaves JSON-config disabled, override resolution  *)
(* returns the empty map and reads no file, whatever the Config's path,    *)
(* the environment variable, a JSON-config flag in argv or the files say;  *)
(* the parser registers no JSON-config flag and every field keeps the      *)
(* schema's default, and an argv that gives the flag never gets a model    *)
(* or a handler.  As stated, such an argv always ends in a parse error.    *)
(***************************************************************************)
C20_Case == app.mode = "single" /\ ~app.cls.Config.CLI_JSON_ENABLE

C20_NoOverrides ==
    /\ Called("setup_hook") =>
          /\ custom_default_values = EmptyDict
          /\ json_config_path = VNone
          /\ pc = "to_parser" \/ Called("to_parser")
    /\ exc.name \notin {"IOError", "JSONDecodeError"}
    /\ ParserBuilt =>
          /\ ActionsFor(parser, ReplaceDash(app.cls.Config.CLI_JSON_KEY)) = {}
          /\ \A a \in 1..Len(parser.actions) :
                LongFlag(app.cls.Config.CLI_JSON_KEY) \notin SeqToSet(parser.actions[a].option_strings)
          /\ \A k \in 1..Len(app.cls.fields) :
                \A a \in ActionsFor(parser, app.cls.fields[k].name) :
                    /\ parser.actions[a].default = app.cls.fields[k].default
                    /\ RequiredOnCli(app.cls.fields[k]) = app.cls.fields[k].required
    /\ Gives(args, LongFlag(app.cls.Config.CLI_JSON_KEY)) =>
          ~Called("construct") /\ HandlerCalls = 0

C20_Original ==
    C20_Case =>
        /\ C20_NoOverrides
        /\ (pc = "done" /\ Gives(args, LongFlag(app.cls.Config.CLI_JSON_KEY))) => ParseError

\* C20 as it holds: the flag is a parse error unless the parser reaches
\* --help (or --version) before it
C20_Amended ==
    C20_Case =>
        /\ C20_NoOverrides
        /\ (pc = "done" /\ Gives(args, LongFlag(app.cls.Config.CLI_JSON_KEY))) =>
              \/ ParseError /\ returned = exception_handler(app.exception_handler, exc)
              \/ /\ exc.name = "TerminalEagerCommand"
                 /\ \E fl \in EagerFlags(app) : Gives(args, fl)
                 /\ returned = 0
        /\ (pc = "done" /\ Gives(args, LongFlag(app.cls.Config.CLI_JSON_KEY))
               /\ \A fl \in EagerFlags(app) : ~Gives(args, fl)) => ParseError

\* the Config and the environment both name a file that holds overrides:
\* neither is read, max_records keeps the schema's default
C20_Witness ==
    /\ C20_Case
    /\ pc = "done"
    /\ app.cls.Config.CLI_JSON_CONFIG_PATH = VStr("d.json")
    /\ environ = EnvWith("e.json")
    /\ files["c.json"] = Invalid
    /\ args = <<"--hdf_file", "c.json">>
    /\ custom_default_values = EmptyDict
    /\ handled = [k \in {"hdf_file", "max_records"} |->
                     IF k = "hdf_file" THEN VStr("c.json") ELSE VInt(10)]
    /\ returned = 0

\* the flag is given: the parser does not know it
C20_WitnessFlag ==
    /\ C20_Case
    /\ pc = "done"
    /\ environ = EnvWith("e.json")
    /\ args = <<"--hdf_file", "c.json", "--json-config", "c.json">>
    /\ ParseError
    /\ HandlerCalls = 0
    /\ returned = 2

(***************************************************************************)
(* C21.  The steps of a run occur in the fixed order override resolution,  *)
(* parser build, argv parse, model construction, validation, prologue,     *)
(* handler, epilogue, each at most once and none without the ones before   *)
(* it; the prologue gets a constructed and validated model, the handler    *)
(* runs only after the prologue returned, with that model; and once a step *)
(* has failed (or an eager flag has ended the parse) no later step runs    *)
(* but the exception handler's mapping and the epilogue.                   *)
(***************************************************************************)
StepOrder ==
    <<"setup_hook", "to_parser", "parse_args", "construct", "validate", "prologue", "handler">>

\* the trace with the handler's name abstracted
Norm(t) == [k \in 1..Len(t) |-> IF t[k] \in RunnerFuncs THEN "handler" ELSE t[k]]

\* what may follow the steps: nothing yet, or the end of the run
Tails(n) ==
    IF exc = NoExc
    THEN {<<>>} \cup (IF n = Len(StepOrder) THEN {<<"epilogue">>} ELSE {})
    ELSE IF exc.name = "TerminalEagerCommand"
    THEN {<<>>, <<"epilogue">>}
    ELSE {m \o t : m \in (IF n = 6 THEN {<<"prologue_raised">>} ELSE {<<>>}),
                   t \in {<<>>, <<"exception_handler">>, <<"exception_handler", "epilogue">>}}

C21_TraceShape ==
    \E n \in 0..Len(StepOrder) :
        \E tail \in Tails(n) : Norm(trace) = SubSeq(StepOrder, 1, n) \o tail

C21_StepsInOrder ==
    /\ C21_TraceShape
    /\ exc.name = "TerminalEagerCommand" => Norm(trace)[Len(trace) - Count("epilogue")] = "parse_args"
    /\ Called("prologue") =>
          /\ Called("validate")
          /\ opts # EmptyDict
          /\ opts = Construct(ClassNamed(app, pargs["cls"].s), pure_d).m
    /\ HandlerCalls >= 1 =>
          /\ HandlerCalls = 1
          /\ Called("prologue") /\ ~PrologueRaised
          /\ handled = opts
    /\ pc \in {"return", "done", "raised"} /\ exc = NoExc => HandlerCalls = 1
    /\ pc \in {"done", "raised"} => Count("epilogue") = 1

\* the model is refused by its schema: no validation, prologue or handler,
\* but the exception handler and the epilogue
C21_Witness ==
    /\ pc = "done"
    /\ exc.name = "ValidationError"
    /\ trace = <<"setup_hook", "to_parser", "parse_args", "construct",
                 "exception_handler", "epilogue">>

\* the whole order
C21_WitnessFull ==
    /\ pc = "done"
    /\ exc = NoExc
    /\ Norm(trace) = StepOrder \o <<"epilogue">>

(***************************************************************************)
(* C22.  The mapping given to the model constructor holds only entries of  *)
(* the parsed namespace whose key is a field of the selected model's       *)
(* schema; func, cls, the sub-command selector, the JSON-config path and   *)
(* the shell-completion entry stay behind in the namespace.                *)
(***************************************************************************)
BookkeepingKeys(a) ==
    {"func", "cls", "commands",
     ReplaceDash(SubSeq(CLI_SHELL_COMPLETION_FLAG, 3, Len(CLI_SHELL_COMPLETION_FLAG)))}
    \cup {ReplaceDash(c.Config.CLI_JSON_KEY) : c \in Classes(a)}

C22_OnlySchemaKeys ==
    Called("construct") =>
        /\ DOMAIN pure_d \subseteq FieldNames(ClassNamed(app, pargs["cls"].s))
        /\ DOMAIN pure_d \subseteq DOMAIN pargs
        /\ \A k \in DOMAIN pure_d : pure_d[k] = pargs[k]
        /\ DOMAIN pure_d \cap BookkeepingKeys(app) = {}
        /\ {"func", "cls"} \subseteq DOMAIN pargs

\* a single command whose namespace carries the JSON path and the completion entry
C22_Witness ==
    /\ Called("construct")
    /\ app.mode = "single"
    /\ {"func", "cls", "json_config", "emit_completion"} \subseteq DOMAIN pargs
    /\ pargs["json_config"] # VNone
    /\ pure_d # EmptyDict

\* a sub-command whose namespace carries the selector and the JSON path
C22_WitnessSub ==
    /\ Called("construct")
    /\ app.mode = "sub"
    /\ {"func", "cls", "commands", "json_config"} \subseteq DOMAIN pargs
    /\ pure_d # EmptyDict

(***************************************************************************)
(* C23.  A malformed custom spec (more than two tokens, or a paired        *)
(* boolean whose single token is not a short flag) makes the construction  *)
(* of the parser raise: no argv has been parsed by then, the model is      *)
(* never constructed and the handler never called.                         *)
(***************************************************************************)
MalformedApp(a) == \E c \in Classes(a) : Malformed(c) \/ PairMalformed(c)

\* setup_hook_to_load_json has parsed argv for the JSON flag
PrePassParsed == Called("setup_hook") /\ HookClass(app).Config.CLI_JSON_ENABLE
ArgvParsed == PrePassParsed \/ Called("parse_args")

NeverConstructed ==
    /\ ~Called("construct")
    /\ pure_d = EmptyDict
    /\ opts = EmptyDict
    /\ ~Called("prologue")
    /\ HandlerCalls = 0

C23_Original ==
    (MalformedApp(app) /\ Called("to_parser")) =>
        /\ ParserRefused
        /\ ~ArgvParsed
        /\ NeverConstructed

\* C23 as it holds: the parser is constructed after the override
\* resolution, which with JSON enabled has parsed argv for the JSON flag
\* and whose failure ends the run before the parser is constructed; the
\* parser that parses argv for the model is never built
C23_Amended ==
    MalformedApp(app) =>
        /\ NeverConstructed
        /\ ~ParserBuilt
        /\ parser = CustomArgumentParser
        /\ Called("to_parser") =>
              /\ ParserRefused
              /\ SubSeq(trace, 1, 2) = <<"setup_hook", "to_parser">>
              /\ PrePassParsed => JsonFlagWellFormed(app, args)
        /\ (pc \notin {"setup_hook", "to_parser"} /\ ~Called("to_parser")) =>
              /\ PrePassParsed
              /\ exc.name \in {"IOError", "JSONDecodeError", "FailedExecutionException"}
              /\ trace[1] = "setup_hook"

\* the run of a command with a three-token spec and JSON disabled is over
C23_Witness ==
    /\ MalformedApp(app)
    /\ ~HookClass(app).Config.CLI_JSON_ENABLE
    /\ Len(args) > 0
    /\ ParserRefused
    /\ pc = "done"
    /\ returned = 1

\* the pre-pass read the path from argv before the parser was refused
C23_WitnessPrePass ==
    /\ MalformedApp(app)
    /\ ParserRefused
    /\ pc = "done"
    /\ json_config_path = VStr("c.json")

\* the pre-pass failed on the file argv names: the parser is never constructed
C23_WitnessPreempted ==
    /\ MalformedApp(app)
    /\ pc = "done"
    /\ ~Called("to_parser")
    /\ exc.name = "JSONDecodeError"

(***************************************************************************)
(* C24.  A run in sub-command mode resolves the overrides once, under the  *)
(* Config of the last sub-command of the mapping: nothing is read when     *)
(* that Config leaves JSON disabled, and otherwise the path comes from     *)
(* its flag, else its environment variable, else its declared path,        *)
(* whatever the other sub-commands declare and whichever is named.         *)
(***************************************************************************)
LastSub(a) == a.subparsers[Len(a.subparsers)].model_class
LastFlag(a) == LongFlag(LastSub(a).Config.CLI_JSON_KEY)

\* the path under the last sub-command's key, environment variable and path
LastPathInForce(a, argv, env) ==
    IF Gives(argv, LastFlag(a)) THEN VStr(argv[LastFlagAt(argv, LastFlag(a)) + 1])
    ELSE DictGet(env, LastSub(a).Config.CLI_JSON_CONFIG_ENV_VAR,
                 LastSub(a).Config.CLI_JSON_CONFIG_PATH)

LastFlagWellFormed(a, argv) ==
    \A i \in 1..Len(argv) :
        FlagAt(argv, i, LastFlag(a)) => (i < Len(argv) /\ ~Dashed(argv[i + 1]))

LastFlagPathsExist(a, argv, env, fs) ==
    /\ \A i \in 1..(Len(argv) - 1) : FlagAt(argv, i, LastFlag(a)) => Exists(fs, argv[i + 1])
    /\ LastPathInForce(a, argv, env) # VNone => Exists(fs, LastPathInForce(a, argv, env).s)

SetupPassed == pc = "to_parser" \/ Called("to_parser")

C24_LastSubCommandDecides ==
    (app.mode = "sub" /\ Called("setup_hook")) =>
        /\ Count("setup_hook") = 1
        /\ IF ~LastSub(app).Config.CLI_JSON_ENABLE
           THEN /\ SetupPassed
                /\ custom_default_values = EmptyDict
                /\ json_config_path = VNone
           ELSE IF ~LastFlagWellFormed(app, args) \/ ~LastFlagPathsExist(app, args, environ, files)
           THEN ~SetupPassed /\ exc.name \in {"FailedExecutionException", "IOError"}
           ELSE /\ SetupPassed
                /\ json_config_path = LastPathInForce(app, args, environ)
                /\ custom_default_values =
                      IF json_config_path = VNone THEN EmptyDict
                      ELSE files[json_config_path.s].d
        /\ (HandlerCalls = 1 /\ LastSub(app).Config.CLI_JSON_ENABLE) =>
              handled["input_file"] = VStr(LastPathInForce(app, args, environ).s)

\* the first sub-command is named and given a file under its own flag, and
\* its handler gets the file the last sub-command declares
C24_Witness ==
    /\ app.mode = "sub"
    /\ HandlerCalls = 1
    /\ pargs["commands"] = VStr(app.subparsers[1].name)
    /\ app.subparsers[1].model_class.Config.CLI_JSON_ENABLE
    /\ LastSub(app).Config.CLI_JSON_ENABLE
    /\ Gives(args, LongFlag(app.subparsers[1].model_class.Config.CLI_JSON_KEY))
    /\ ~Gives(args, LastFlag(app))
    /\ handled["input_file"] = LastSub(app).Config.CLI_JSON_CONFIG_PATH

\* the last sub-command disables JSON: the first one's environment variable,
\* path and flag load nothing
C24_WitnessDisabled ==
    /\ app.mode = "sub"
    /\ pc = "done"
    /\ app.subparsers[1].model_class.Config.CLI_JSON_ENABLE
    /\ ~LastSub(app).Config.CLI_JSON_ENABLE
    /\ app.subparsers[1].model_class.Config.CLI_JSON_CONFIG_ENV_VAR \in DOMAIN environ
    /\ Gives(args, LongFlag(app.subparsers[1].model_class.Config.CLI_JSON_KEY))
    /\ Called("parse_args")
    /\ custom_default_values = EmptyDict

(***************************************************************************)
(* C25.  A boolean field gets the single negating flag exactly when it is  *)
(* not required, not nullable and its effective default is the boolean     *)
(* True or False itself; required, nullable, or with any other effective   *)
(* default (the number 1 or 0 of a JSON override among them) it gets the   *)
(* pair of flags of a mutually exclusive group.                            *)
(***************************************************************************)
EffectiveDefault(f) == DictGet(custom_default_values, f.name, f.default)
EffectivelyRequired(f) == f.required /\ f.name \notin DOMAIN custom_default_values
StrictlyBool(v) == v \in {VBool(TRUE), VBool(FALSE)}

\* one action outside any group carries every flag of the field
NegateSynthesized(p, name) ==
    /\ Cardinality(ActionsFor(p, name)) = 1
    /\ \A k \in ActionsFor(p, name) : p.actions[k].group = 0
\* the flags of the field are the members of a mutually exclusive group
PairedSynthesized(p, name) ==
    /\ ActionsFor(p, name) # {}
    /\ \A k \in ActionsFor(p, name) :
          p.actions[k].group # 0 /\ Len(p.actions[k].option_strings) = 1

C25_NegateIffStrictBoolean ==
    (app.mode = "single" /\ ParserBuilt) =>
        \A k \in 1..Len(app.cls.fields) :
            LET f == app.cls.fields[k] IN
            f.type_ = "bool" =>
                IF ~EffectivelyRequired(f) /\ ~f.allow_none /\ StrictlyBool(EffectiveDefault(f))
                THEN NegateSynthesized(parser, f.name)
                ELSE PairedSynthesized(parser, f.name)

(***************************************************************************)
(* C26.  Of the pair of flags of a boolean in paired mode, the one that    *)
(* would store the effective default is not registered: with default       *)
(* False only the flag that stores True exists, with default True only     *)
(* the flag that stores False, with default None both.  An argv that       *)
(* holds the flag left out is rejected: the model is never constructed,    *)
(* no handler runs, and the run ends with the parser's error unless an     *)
(* eager flag ended parsing first.                                         *)
(***************************************************************************)
\* the pair: the tokens of the custom spec, else the prefix pair on the name
FlagPair(cls, f) ==
    IF ~HasCustomSpec(cls, f) THEN PairedFlags(cls, f)
    ELSE IF Len(CustomSpec(cls, f)) = 1 THEN <<CustomSpec(cls, f)[1], LongFlag(f.name)>>
    ELSE CustomSpec(cls, f)

StoresOnly(p, name, flag, kind) ==
    \E a \in 1..Len(p.actions) :
        /\ ActionsFor(p, name) = {a}
        /\ p.actions[a].option_strings = <<flag>>
        /\ p.actions[a].kind = kind

C26_Field(cls, f, d) ==
    /\ d = VBool(FALSE) =>
          /\ StoresOnly(parser, f.name, FlagPair(cls, f)[1], "store_true")
          /\ FlagPair(cls, f)[2] \in SeqToSet(args) => C13_Rejected
    /\ d = VBool(TRUE) =>
          /\ StoresOnly(parser, f.name, FlagPair(cls, f)[2], "store_false")
          /\ FlagPair(cls, f)[1] \in SeqToSet(args) => C13_Rejected
    /\ d = VNone =>
          /\ Registered(parser, f.name) = SeqToSet(FlagPair(cls, f))
          /\ Cardinality(ActionsFor(parser, f.name)) = 2

C26_WitnessBoth ==
    /\ app.mode = "single"
    /\ "debug" \in FieldNames(app.cls)
    /\ EffectiveDefault(FieldOf(app.cls, "debug")) = VNone
    /\ Registered(parser, "debug") = {"-d", "--no-debug"}
    /\ args = <<"--no-debug">>
    /\ HandlerCalls = 1
    /\ handled["debug"] = VBool(FALSE)

(***************************************************************************)
(* C27.  In a run in which nothing raises, the value the handler returns,  *)
(* zero or not, is the exit code as it stands: the exception handler is    *)
(* not called, the epilogue is given that value and the runner returns it. *)
(***************************************************************************)
C27_HandlerCodeVerbatim ==
    exc = NoExc =>
        /\ ~Called("exception_handler")
        /\ Called("epilogue") =>
              /\ HandlerCalls = 1
              /\ func_returned \in HandlerReturns
              /\ exit_code = func_returned
              /\ epilogue_code = func_returned
        /\ pc = "done" => returned = func_returned /\ returned = epilogue_code

\* the handler returned 3: the epilogue got 3 and the runner returned 3
C27_Witness ==
    /\ exc = NoExc
    /\ pc = "done"
    /\ func_returned = 3
    /\ epilogue_code = 3
    /\ returned = 3
    /\ ~Called("exception_handler")

(***************************************************************************)
(* C28.  The keys of the JSON file that name no field of the schema are    *)
(* ignored: the parser is the one built from the declared keys alone, so   *)
(* that no default and no requiredness differs and the run goes on as the  *)
(* run without them, and none of them is in the mapping given to the       *)
(* model constructor.                                                      *)
(***************************************************************************)
UndeclaredKeys(cls, d) == DOMAIN d \ FieldNames(cls)

\* the outcome of to_parser is that of the overrides less the undeclared keys
SameAsWithout(q) ==
    IF q.err # "none" THEN ~ParserBuilt /\ exc.name = q.err
    ELSE ParserBuilt /\ parser = q

C28_UndeclaredKeysIgnored ==
    app.mode = "single" =>
        /\ Called("to_parser") =>
              SameAsWithout(to_p(app.cls, app.runner_func, app.version,
                                 [k \in DOMAIN custom_default_values \cap FieldNames(app.cls) |->
                                     custom_default_values[k]],
                                 environ))
        /\ Called("construct") =>
              DOMAIN pure_d \cap UndeclaredKeys(app.cls, custom_default_values) = {}

\* the file holds verbose and cls beside two fields: the handler gets the
\* two fields and the schema default of the third
C28_Witness ==
    /\ app.mode = "single"
    /\ UndeclaredKeys(app.cls, custom_default_values) = {"verbose", "cls"}
    /\ args = <<>>
    /\ HandlerCalls = 1
    /\ pargs["cls"] = VRef(app.cls.name)
    /\ DOMAIN handled = {"input_file", "run_training", "dry_run"}
    /\ handled["input_file"] = VStr("input_file")
    /\ handled["dry_run"] = VBool(TRUE)

(***************************************************************************)
(* C29.  The negating flag of a boolean follows the default in force       *)
(* after the overrides, not the one the schema declares: with dry_run:     *)
(* bool = False and a JSON file that holds dry_run = true the only flag    *)
(* of the field is --disable-dry_run, which gives False; without it the    *)
(* model holds True, and --enable-dry_run is rejected as unknown.          *)
(***************************************************************************)
\* a non-nullable boolean whose default in force is a boolean
NegateField(f) ==
    /\ f.type_ = "bool"
    /\ ~f.allow_none
    /\ ~EffectivelyRequired(f)
    /\ StrictlyBool(EffectiveDefault(f))

\* the prefix that negates d applied to the field's name
NegatingFlagOf(cls, f, d) ==
    (IF d = VBool(TRUE) THEN cls.Config.CLI_BOOL_PREFIX[2] ELSE cls.Config.CLI_BOOL_PREFIX[1])
        \o f.name
\* the flag of the other prefix
SameFlagOf(cls, f, d) ==
    (IF d = VBool(TRUE) THEN cls.Config.CLI_BOOL_PREFIX[1] ELSE cls.Config.CLI_BOOL_PREFIX[2])
        \o f.name

C29_Field(cls, f, d) ==
    /\ Called("parse_args") =>
          StoresOnly(parser, f.name, NegatingFlagOf(cls, f, d),
                     IF d = VBool(TRUE) THEN "store_false" ELSE "store_true")
    /\ HandlerCalls = 1 =>
          handled[f.name] = IF Gives(args, NegatingFlagOf(cls, f, d))
                            THEN VBool(d = VBool(FALSE)) ELSE d
    /\ SameFlagOf(cls, f, d) \in SeqToSet(args) => C13_Rejected

C29_WitnessOmitted ==
    /\ app.mode = "single"
    /\ "dry_run" \in DOMAIN custom_default_values
    /\ custom_default_values["dry_run"] = VBool(TRUE)
    /\ ~Gives(args, "--disable-dry_run")
    /\ HandlerCalls = 1
    /\ handled["dry_run"] = VBool(TRUE)

\* ... and --enable-dry_run is the parser's error
C29_WitnessRejected ==
    /\ app.mode = "single"
    /\ "dry_run" \in DOMAIN custom_default_values
    /\ custom_default_values["dry_run"] = VBool(TRUE)
    /\ args = <<"--enable-dry_run">>
    /\ pc = "done"
    /\ returned = 2

(***************************************************************************)
(* C30.  The overrides are resolved before the parser of the model is      *)
(* built, so before any eager flag acts.  The pre-pass looks at the JSON   *)
(* flag alone: --help, --version and the absence of required fields do     *)
(* not keep it from loading the file.  When the file in force does not     *)
(* hold JSON the run ends with the exception handler's code, --help or     *)
(* --version in argv or not.                                               *)
(***************************************************************************)
\* the file the path in force names holds no JSON
FileInForceInvalid(a, argv, env, fs) ==
    /\ JsonPathInForce(a, argv, env) # VNone
    /\ Exists(fs, JsonPathInForce(a, argv, env).s)
    /\ fs[JsonPathInForce(a, argv, env).s].kind = "invalid"

\* the path the lenient pre-pass of a single command resolves
PathResolved(a, argv, env, fs) ==
    IF JsonPathInForce(a, argv, env) # VNone /\ Exists(fs, JsonPathInForce(a, argv, env).s)
    THEN JsonPathInForce(a, argv, env) ELSE VNone

EndsWithHandlerCode ==
    /\ ~SetupPassed
    /\ NeverConstructed
    /\ exc.name \notin {"none", "TerminalEagerCommand"}
    /\ pc = "done" =>
          /\ Count("exception_handler") = 1
          /\ returned = exception_handler(app.exception_handler, exc)
          /\ returned # 0

C30_OverridesBeforeEagerFlags ==
    HookClass(app).Config.CLI_JSON_ENABLE =>
        /\ trace # <<>> => trace[1] = "setup_hook" /\ Count("setup_hook") = 1
        /\ (Called("setup_hook") /\ ~JsonFlagWellFormed(app, args)) => EndsWithHandlerCode
        /\ (Called("setup_hook") /\ JsonFlagWellFormed(app, args)) =>
              IF FileInForceInvalid(app, args, environ, files)
              THEN /\ EndsWithHandlerCode
                   /\ app.mode = "single" => exc.name = "JSONDecodeError"
              ELSE app.mode = "single" =>
                      /\ SetupPassed
                      /\ json_config_path = PathResolved(app, args, environ, files)
                      /\ custom_default_values =
                            IF json_config_path = VNone THEN EmptyDict
                            ELSE files[json_config_path.s].d

\* the file holds no JSON and argv is --version alone: the custom
\* exception handler's code comes back
C30_Witness ==
    /\ HookClass(app).Config.CLI_JSON_ENABLE
    /\ app.version # VNone
    /\ args = <<"--version">>
    /\ FileInForceInvalid(app, args, environ, files)
    /\ exc.name = "JSONDecodeError"
    /\ pc = "done"
    /\ returned = CustomExitCode

\* --help precedes the JSON flag, whose file holds no JSON
C30_WitnessHelp ==
    /\ HookClass(app).Config.CLI_JSON_ENABLE
    /\ args = <<"--help", "--json-config", "c.json">>
    /\ FileInForceInvalid(app, args, environ, files)
    /\ pc = "done"
    /\ returned = 1

\* --help and no required field: the file is loaded all the same, and the
\* parser then prints the help
C30_WitnessIgnored ==
    /\ HookClass(app).Config.CLI_JSON_ENABLE
    /\ args = <<"--help", "--json-config", "c.json">>
    /\ custom_default_values = [k \in {"hdf_file"} |-> VStr("j.hdf")]
    /\ exc.name = "TerminalEagerCommand"
    /\ pc = "done"
    /\ returned = 0

====
